---- MODULE Spec2Model ----
(***************************************************************************)
(* soop3: a model of the path jail (src/utils/paths.rs), the streaming     *)
(* upload pipeline (src/server/uploads.rs, src/server/handlers/upload.rs), *)
(* the file handler (src/server/handlers/files.rs) and the middleware      *)
(* chain (src/server/app.rs, src/server/middleware/*.rs).                  *)
(*                                                                         *)
(* Strings are sequences of bytes (their UTF-8 encoding); a filesystem     *)
(* path is a sequence of names, the root directory being <<>>.             *)
(***************************************************************************)
EXTENDS Integers, Sequences, FiniteSets, TLC

VARIABLES
    fs,           \* the filesystem: path -> [kind, target, data, ino]
    fs0,          \* the filesystem the server started on
    base_dir,     \* the public directory, join_path_jailed's base_dir
    component,    \* the raw request path after the leading slash
    ntokens,      \* how many pieces the raw path was built from
    jail_result,  \* the Result join_path_jailed returned, or Pending
    resp,         \* the response a file or upload handler produced
    state_config, \* AppState::config, the AppConfig
    uploads,      \* the upload requests in flight, each with its handler's position
    http          \* a request on its way through the middleware chain

vars == <<fs, fs0, base_dir, component, ntokens, jail_result, resp, state_config, uploads, http>>

\* ------------------------------------------------------------------ bytes

\* the ASCII codes the code names as literals
Ch == [pct |-> 37, slash |-> 47, dot |-> 46, bslash |-> 92, nul |-> 0,
       two |-> 50, f |-> 102, underscore |-> 95]

DotDot == <<Ch.dot, Ch.dot>>
Dot == <<Ch.dot>>

Contains(s, b) == \E i \in 1..Len(s) : s[i] = b

\* u8::to_ascii_lowercase
to_ascii_lowercase(b) == IF b \in 65..90 THEN b + 32 ELSE b

\* char::to_digit(16) on a byte, -1 for None
HexVal(b) ==
    IF b \in 48..57 THEN b - 48
    ELSE IF b \in 97..102 THEN b - 87
    ELSE IF b \in 65..70 THEN b - 55
    ELSE -1

\* percent_encoding::percent_decode_str: %XX with two hex digits is one byte,
\* any other '%' stands for itself
RECURSIVE percent_decode_str(_)
percent_decode_str(s) ==
    IF s = <<>> THEN <<>>
    ELSE IF s[1] = Ch.pct /\ Len(s) >= 3 /\ HexVal(s[2]) >= 0 /\ HexVal(s[3]) >= 0
         THEN <<16 * HexVal(s[2]) + HexVal(s[3])>> \o percent_decode_str(SubSeq(s, 4, Len(s)))
         ELSE <<s[1]>> \o percent_decode_str(Tail(s))

IsCont(s, i) == i <= Len(s) /\ s[i] \in 128..191

\* PercentDecode::decode_utf8 succeeds: the bytes are well-formed UTF-8
RECURSIVE Utf8Valid(_)
Utf8Valid(s) ==
    IF s = <<>> THEN TRUE
    ELSE LET b == s[1] IN
         IF b <= 127 THEN Utf8Valid(Tail(s))
         ELSE IF b \in 194..223
              THEN IsCont(s, 2) /\ Utf8Valid(SubSeq(s, 3, Len(s)))
         ELSE IF b \in 224..239
              THEN /\ IsCont(s, 2) /\ IsCont(s, 3)
                   /\ (b = 224 => s[2] >= 160)
                   /\ (b = 237 => s[2] <= 159)
                   /\ Utf8Valid(SubSeq(s, 4, Len(s)))
         ELSE IF b \in 240..244
              THEN /\ IsCont(s, 2) /\ IsCont(s, 3) /\ IsCont(s, 4)
                   /\ (b = 240 => s[2] >= 144)
                   /\ (b = 244 => s[2] <= 143)
                   /\ Utf8Valid(SubSeq(s, 5, Len(s)))
         ELSE FALSE

\* str::split('/'): the pieces between separators, empty ones included
RECURSIVE SplitAcc(_, _, _)
SplitAcc(s, sep, cur) ==
    IF s = <<>> THEN <<cur>>
    ELSE IF s[1] = sep THEN <<cur>> \o SplitAcc(Tail(s), sep, <<>>)
    ELSE SplitAcc(Tail(s), sep, Append(cur, s[1]))

Split(s, sep) == SplitAcc(s, sep, <<>>)

RECURSIVE SelectNames(_)
SelectNames(pieces) ==
    IF pieces = <<>> THEN <<>>
    ELSE LET p == Head(pieces) IN
         IF p = <<>> \/ p = Dot THEN SelectNames(Tail(pieces))
         ELSE <<[kind |-> IF p = DotDot THEN "ParentDir" ELSE "Normal", name |-> p]>>
              \o SelectNames(Tail(pieces))

\* std::path::Path::components on Unix: RootDir for a leading '/', repeated
\* separators and "." dropped (a leading "." is CurDir), ".." is ParentDir
Components(s) ==
    LET pieces == Split(s, Ch.slash)
        root == IF s # <<>> /\ s[1] = Ch.slash
                THEN <<[kind |-> "RootDir", name |-> <<>>]>> ELSE <<>>
        cur == IF s # <<>> /\ Head(pieces) = Dot
               THEN <<[kind |-> "CurDir", name |-> Dot]>> ELSE <<>>
    IN root \o cur \o SelectNames(pieces)

\* ------------------------------------------------------------- filesystem

\* the Err of a path lookup, as paths no file has: ENOENT, ENOTDIR, ELOOP,
\* EACCES
NoPath == << <<-1>> >>
NotDirPath == << <<-2>> >>
LoopPath == << <<-3>> >>
DeniedPath == << <<-5>> >>
IsErrPath(p) == p \in {NoPath, NotDirPath, LoopPath, DeniedPath}

\* std::io::Error::kind of a failed lookup
ErrKind(p) ==
    CASE p = NoPath -> "NotFound"
      [] p = NotDirPath -> "NotADirectory"
      [] p = LoopPath -> "FilesystemLoop"
      [] p = DeniedPath -> "PermissionDenied"
      [] OTHER -> "none"

SymlinkFuel == 3

\* a node: a directory, a regular file (its bytes, and the inode number an open
\* handle keeps naming it by) or a symbolic link (its absolute target)
Dir == [kind |-> "dir", target |-> <<>>, data |-> <<>>, ino |-> 0, mode |-> "rwx"]
File(bytes, ino) ==
    [kind |-> "file", target |-> <<>>, data |-> bytes, ino |-> ino, mode |-> "rwx"]
Link(to) == [kind |-> "link", target |-> to, data |-> <<>>, ino |-> 0, mode |-> "rwx"]

\* chmod: what the server's user may do with a node; "rwx" all, "r-x" all
\* but write, "---" nothing
Chmod(node, mode) == [node EXCEPT !.mode = mode]

Present(f, p) == p = <<>> \/ p \in DOMAIN f
KindOf(f, p) == IF p = <<>> THEN "dir" ELSE f[p].kind
ModeOf(f, p) == IF p = <<>> THEN "rwx" ELSE f[p].mode

\* read, search (a directory's x) and write permission
Readable(f, p) == ModeOf(f, p) \in {"rwx", "r-x"}
Searchable(f, p) == ModeOf(f, p) \in {"rwx", "r-x"}
Writable(f, p) == ModeOf(f, p) = "rwx"

\* Path::starts_with: component-wise prefix
starts_with(p, b) == Len(b) <= Len(p) /\ SubSeq(p, 1, Len(b)) = b

\* Path::parent / PathBuf::pop
Parent(p) == SubSeq(p, 1, Len(p) - 1)
Last(p) == p[Len(p)]

\* realpath: every symlink on the way followed
RECURSIVE Resolve(_, _, _, _)
Resolve(f, cur, rest, fuel) ==
    IF rest = <<>> THEN cur
    ELSE IF KindOf(f, cur) # "dir" THEN NotDirPath
    ELSE IF ~Searchable(f, cur) THEN DeniedPath
    ELSE LET next == Append(cur, Head(rest)) IN
         IF ~Present(f, next) THEN NoPath
         ELSE IF f[next].kind = "link"
              THEN IF fuel = 0 THEN LoopPath
                   ELSE Resolve(f, <<>>, f[next].target \o Tail(rest), fuel - 1)
              ELSE Resolve(f, next, Tail(rest), fuel)

\* Path::canonicalize (an error path for Err)
canonicalize(f, p) == Resolve(f, <<>>, p, SymlinkFuel)

\* Path::exists: metadata() following symlinks succeeds
exists(f, p) == ~IsErrPath(canonicalize(f, p))

\* Path::is_dir / Path::is_file: metadata() following symlinks
is_dir(f, p) == exists(f, p) /\ KindOf(f, canonicalize(f, p)) = "dir"
is_file(f, p) == exists(f, p) /\ KindOf(f, canonicalize(f, p)) = "file"

\* where a call that does not follow a final symlink (unlink, rename, O_EXCL)
\* looks: the resolved parent plus the last name
Entry(f, p) ==
    LET pr == canonicalize(f, Parent(p)) IN
    IF IsErrPath(pr) THEN pr
    ELSE IF KindOf(f, pr) # "dir" THEN NotDirPath
    ELSE IF ~Searchable(f, pr) THEN DeniedPath
    ELSE Append(pr, Last(p))

FsOk(f) == [fs |-> f, err |-> "none", handle |-> 0]
FsErr(f, e) == [fs |-> f, err |-> e, handle |-> 0]

\* mkdir(2)
Mkdir(f, p) ==
    LET e == Entry(f, p) IN
    IF p = <<>> THEN FsErr(f, "AlreadyExists")
    ELSE IF IsErrPath(e) THEN FsErr(f, ErrKind(e))
    ELSE IF Present(f, e) THEN FsErr(f, "AlreadyExists")
    ELSE IF ~Writable(f, Parent(e)) THEN FsErr(f, "PermissionDenied")
    ELSE FsOk(f @@ (e :> Dir))

\* std::fs::create_dir_all: mkdir, on NotFound the ancestors first; an
\* existing directory is not an error
RECURSIVE create_dir_all(_, _)
create_dir_all(f, p) ==
    LET first == Mkdir(f, p) IN
    IF first.err = "none" THEN first
    ELSE IF first.err # "NotFound"
         THEN IF is_dir(f, p) THEN FsOk(f) ELSE first
    ELSE IF p = <<>> THEN FsErr(f, "Other")
    ELSE LET up == create_dir_all(f, Parent(p)) IN
         IF up.err # "none" THEN up
         ELSE LET again == Mkdir(up.fs, p) IN
              IF again.err = "none" THEN again
              ELSE IF is_dir(up.fs, p) THEN FsOk(up.fs) ELSE again

\* OpenOptions::new().write(true).create_new(true).open: O_CREAT|O_EXCL, which
\* fails on any existing entry, a dangling symlink included
OpenCreateNew(f, p, ino) ==
    LET e == Entry(f, p) IN
    IF IsErrPath(e) THEN FsErr(f, ErrKind(e))
    ELSE IF Present(f, e) THEN FsErr(f, "AlreadyExists")
    ELSE IF ~Writable(f, Parent(e)) THEN FsErr(f, "PermissionDenied")
    ELSE [fs |-> f @@ (e :> File(<<>>, ino)), err |-> "none", handle |-> ino]

\* File::create: O_CREAT|O_TRUNC following symlinks; an existing file keeps
\* its inode and loses its bytes
RECURSIVE FileCreateAt(_, _, _, _)
FileCreateAt(f, p, ino, fuel) ==
    LET e == Entry(f, p) IN
    IF IsErrPath(e) THEN FsErr(f, ErrKind(e))
    ELSE IF ~Present(f, e)
         THEN IF ~Writable(f, Parent(e)) THEN FsErr(f, "PermissionDenied")
              ELSE [fs |-> f @@ (e :> File(<<>>, ino)), err |-> "none", handle |-> ino]
    ELSE IF f[e].kind = "dir" THEN FsErr(f, "IsADirectory")
    ELSE IF f[e].kind = "link"
         THEN IF fuel = 0 THEN FsErr(f, "FilesystemLoop")
              ELSE FileCreateAt(f, f[e].target, ino, fuel - 1)
    ELSE IF ~Writable(f, e) THEN FsErr(f, "PermissionDenied")
    ELSE [fs |-> [f EXCEPT ![e].data = <<>>], err |-> "none", handle |-> f[e].ino]

FileCreate(f, p, ino) == FileCreateAt(f, p, ino, SymlinkFuel)

\* a positional write into a file's bytes (a gap reads as zero bytes)
WriteAt(data, offset, bytes) ==
    LET padded == IF Len(data) < offset
                  THEN data \o [i \in 1..(offset - Len(data)) |-> 0] ELSE data
        last == offset + Len(bytes)
        size == IF Len(padded) > last THEN Len(padded) ELSE last
    IN [i \in 1..size |->
           IF i > offset /\ i <= last THEN bytes[i - offset] ELSE padded[i]]

\* write_all on an open handle at the handle's offset: the bytes go to the
\* inode, wherever it is linked now (nowhere, when it was unlinked or renamed
\* over)
WriteHandle(f, h, offset, bytes) ==
    [q \in DOMAIN f |->
        IF f[q].kind = "file" /\ f[q].ino = h
        THEN [f[q] EXCEPT !.data = WriteAt(@, offset, bytes)] ELSE f[q]]

\* fs::remove_file: unlink(2), which never follows the last symlink
remove_file(f, p) ==
    LET e == Entry(f, p) IN
    IF IsErrPath(e) THEN FsErr(f, ErrKind(e))
    ELSE IF ~Present(f, e) THEN FsErr(f, "NotFound")
    ELSE IF f[e].kind = "dir" THEN FsErr(f, "IsADirectory")
    ELSE IF ~Writable(f, Parent(e)) THEN FsErr(f, "PermissionDenied")
    ELSE FsOk([q \in DOMAIN f \ {e} |-> f[q]])

\* fs::rename: rename(2) of a file or symlink, replacing what `to` names
rename(f, from, to) ==
    LET ef == Entry(f, from)
        et == Entry(f, to)
    IN IF IsErrPath(ef) THEN FsErr(f, ErrKind(ef))
       ELSE IF ~Present(f, ef) THEN FsErr(f, "NotFound")
       ELSE IF IsErrPath(et) THEN FsErr(f, ErrKind(et))
       ELSE IF Present(f, et) /\ f[et].kind = "dir" THEN FsErr(f, "IsADirectory")
       ELSE IF ~Writable(f, Parent(ef)) \/ ~Writable(f, Parent(et))
       THEN FsErr(f, "PermissionDenied")
       ELSE IF ef = et THEN FsOk(f)
       ELSE FsOk([q \in (DOMAIN f \ {ef}) \cup {et} |-> IF q = et THEN f[ef] ELSE f[q]])

\* fs::metadata: stat(2), following symlinks
metadata(f, p) ==
    LET c == canonicalize(f, p) IN
    IF IsErrPath(c) THEN [err |-> ErrKind(c), is_dir |-> FALSE]
    ELSE [err |-> "none", is_dir |-> KindOf(f, c) = "dir"]

\* ---------------------------------------------------------------- path jail

\* no Result yet
Pending == [ok |-> FALSE, path |-> <<>>, err |-> "pending", fs_examined |-> FALSE]

\* a Result<PathBuf, PathTraversalError>, and whether the filesystem was
\* looked at on the way to it
Ok(p) == [ok |-> TRUE, path |-> p, err |-> "none", fs_examined |-> TRUE]
Err(e) == [ok |-> FALSE, path |-> <<>>, err |-> e, fs_examined |-> TRUE]
EarlyErr(e) == [ok |-> FALSE, path |-> <<>>, err |-> e, fs_examined |-> FALSE]

\* a scan that knows only the lower-case escape
contains_encoded_slash_lower(c) ==
    \E index \in 1..(Len(c) - 2) :
        c[index] = Ch.pct /\ c[index + 1] = Ch.two /\ c[index + 2] = Ch.f

\* paths.rs contains_encoded_slash: a '%' followed by '2' and 'f' or 'F'
contains_encoded_slash(c) ==
    \E index \in 1..(Len(c) - 2) :
        /\ c[index] = Ch.pct
        /\ to_ascii_lowercase(c[index + 1]) = Ch.two
        /\ to_ascii_lowercase(c[index + 2]) = Ch.f

RECURSIVE NormalizeComponents(_, _)
NormalizeComponents(comps, normalized) ==
    IF comps = <<>> THEN [ok |-> TRUE, path |-> normalized, err |-> "none", fs_examined |-> FALSE]
    ELSE LET c == Head(comps) IN
         CASE c.kind = "Normal" -> NormalizeComponents(Tail(comps), Append(normalized, c.name))
           [] c.kind = "CurDir" -> NormalizeComponents(Tail(comps), normalized)
           [] c.kind = "ParentDir" -> NormalizeComponents(Tail(comps), Append(normalized, DotDot))
           [] c.kind = "RootDir" -> EarlyErr("InvalidTargetPath")

\* paths.rs normalize_path_component
normalize_path_component(c) ==
    IF contains_encoded_slash(c) THEN EarlyErr("EncodedSlash")
    ELSE LET decoded == percent_decode_str(c) IN
         IF ~Utf8Valid(decoded) THEN EarlyErr("InvalidEncoding")
         ELSE IF Contains(decoded, Ch.nul) THEN EarlyErr("InvalidEncoding")
         ELSE IF Contains(decoded, Ch.bslash) THEN EarlyErr("Backslash")
         ELSE NormalizeComponents(Components(decoded), <<>>)

\* a candidate taken as it is written, its symlinks not followed
ResolveCandidateLexical(f, candidate) == candidate

\* paths.rs:87, candidate.canonicalize()
ResolveCandidate(f, candidate) == canonicalize(f, candidate)

\* the loop of join_path_jailed_follow_parents over normalized.components()
RECURSIVE JailWalk(_, _, _, _)
JailWalk(f, canonical_base, current, names) ==
    IF names = <<>>
    THEN IF ~starts_with(current, canonical_base) THEN Err("OutsideJail") ELSE Ok(current)
    ELSE LET name == Head(names) IN
         IF name = DotDot
         THEN \* Component::ParentDir
              IF current = <<>> \/ ~starts_with(Parent(current), canonical_base)
              THEN Err("OutsideJail")
              ELSE JailWalk(f, canonical_base, Parent(current), Tail(names))
         ELSE \* Component::Normal
              LET candidate == Append(current, name) IN
              IF exists(f, candidate)
              THEN LET canonical_candidate == ResolveCandidate(f, candidate) IN
                   IF IsErrPath(canonical_candidate) THEN Err("InvalidTargetPath")
                   ELSE IF ~starts_with(canonical_candidate, canonical_base)
                   THEN Err("OutsideJail")
                   ELSE JailWalk(f, canonical_base, canonical_candidate, Tail(names))
              ELSE JailWalk(f, canonical_base, candidate, Tail(names))

\* paths.rs join_path_jailed_follow_parents
join_path_jailed_follow_parents(f, base, c) ==
    LET normalized == normalize_path_component(c) IN
    IF ~normalized.ok THEN normalized
    ELSE IF ~exists(f, base) THEN Err("InvalidBasePath")
    ELSE JailWalk(f, canonicalize(f, base), canonicalize(f, base), normalized.path)

\* paths.rs join_path_jailed
join_path_jailed(f, base, c) == join_path_jailed_follow_parents(f, base, c)

\* ------------------------------------------------------ upload pipeline

MAX_FILENAME_BYTES == 255

\* Option::None for a path
None == << <<-4>> >>

\* AppConfig::upload_dir: the upload directory, the public one when unset
upload_dir(cfg) == IF cfg.upload_dir = None THEN cfg.public_dir ELSE cfg.upload_dir

\* uploads.rs sanitize_filename
sanitize_filename(filename) ==
    IF filename = <<>> THEN FALSE
    ELSE IF Len(filename) > MAX_FILENAME_BYTES THEN FALSE
    ELSE IF Contains(filename, Ch.slash) \/ Contains(filename, Ch.bslash) THEN FALSE
    ELSE TRUE

\* a name handed to the join as it came
escape_percent_skipped(value) == value

\* uploads.rs escape_percent_for_join: every '%' becomes "%25"
RECURSIVE escape_percent_for_join(_)
escape_percent_for_join(value) ==
    IF value = <<>> THEN <<>>
    ELSE IF value[1] = Ch.pct
         THEN <<Ch.pct, 50, 53>> \o escape_percent_for_join(Tail(value))
         ELSE <<value[1]>> \o escape_percent_for_join(Tail(value))

\* str::trim_end_matches('/')
RECURSIVE trim_end_matches(_)
trim_end_matches(s) ==
    IF s # <<>> /\ s[Len(s)] = Ch.slash
    THEN trim_end_matches(SubSeq(s, 1, Len(s) - 1)) ELSE s

\* Path::file_name: the last component when it is a normal name, else <<>>
file_name(path) ==
    LET comps == Components(path) IN
    IF comps = <<>> \/ comps[Len(comps)].kind # "Normal" THEN <<>>
    ELSE IF Len(path) >= 2 /\ SubSeq(path, Len(path) - 1, Len(path)) = DotDot
              /\ (Len(path) = 2 \/ path[Len(path) - 2] = Ch.slash)
         THEN <<>>
    ELSE comps[Len(comps)].name

\* uploads.rs validate_final_component
validate_final_component(path) ==
    LET name == file_name(path) IN
    /\ name # <<>>
    /\ name # Dot /\ name # DotDot
    /\ Len(name) <= MAX_FILENAME_BYTES

\* uploads.rs:70-81, base_filename
base_filename(upload_path, encoded_filename) ==
    IF upload_path = <<>> THEN encoded_filename
    ELSE LET normalized_path == trim_end_matches(upload_path) IN
         IF normalized_path = <<>> THEN encoded_filename
         ELSE normalized_path \o <<Ch.slash>> \o encoded_filename

\* uploads.rs:83-91, the name joined to the jail and the name validated
stored_filename(cfg, timestamp, base, sanitized) ==
    IF cfg.prepend_timestamp
    THEN [filename |-> timestamp \o <<Ch.underscore>> \o base,
          for_validation |-> timestamp \o <<Ch.underscore>> \o sanitized]
    ELSE [filename |-> base, for_validation |-> sanitized]

\* a join that follows ".." wherever it leads
RECURSIVE JoinUnjailed(_, _)
JoinUnjailed(current, comps) ==
    IF comps = <<>> THEN current
    ELSE IF Head(comps).kind = "ParentDir"
         THEN JoinUnjailed(IF current = <<>> THEN <<>> ELSE Parent(current), Tail(comps))
    ELSE IF Head(comps).kind = "Normal"
         THEN JoinUnjailed(Append(current, Head(comps).name), Tail(comps))
    ELSE JoinUnjailed(current, Tail(comps))

\* a target resolved without the jail
resolve_target_unjailed(f, cfg, upload_path, original_filename, timestamp) ==
    Ok(JoinUnjailed(upload_dir(cfg),
                    Components(base_filename(upload_path, original_filename))))

\* uploads.rs:67-96, from the multipart filename to target_path
resolve_target(f, cfg, upload_path, original_filename, timestamp) ==
    IF ~sanitize_filename(original_filename) THEN EarlyErr("InvalidFilename")
    ELSE LET encoded == escape_percent_for_join(original_filename)
             names == stored_filename(cfg, timestamp,
                          base_filename(upload_path, encoded), original_filename)
         IN IF ~validate_final_component(names.for_validation)
            THEN EarlyErr("InvalidFilename")
            ELSE join_path_jailed(f, upload_dir(cfg), names.filename)

\* uploads.rs temp_path_for_target: <final-name>.<nanos>.tmp beside the target
temp_path_for_target(target_path, nanos) ==
    IF target_path = <<>> THEN <<<<117>> \o <<Ch.dot>> \o nanos \o <<Ch.dot, 116, 109, 112>>>>
    ELSE Append(Parent(target_path),
                Last(target_path) \o <<Ch.dot>> \o nanos \o <<Ch.dot, 116, 109, 112>>)

\* UploadError::status_code, with PathTraversalError under InvalidPath and
\* MultipartError::status for a failed body stream
status_code(e) ==
    CASE e = "InvalidFilename" -> 400
      [] e \in {"InvalidBasePath", "InvalidTargetPath", "EncodedSlash", "OutsideJail",
                "InvalidEncoding", "WindowsPrefix", "Backslash"} -> 400
      [] e = "ParentNotDirectory" -> 409
      [] e = "MissingDirectory" -> 404
      [] e = "InvalidBase" -> 500
      [] e = "Conflict" -> 409
      [] e = "PayloadTooLarge" -> 413
      [] e = "Io" -> 500
      [] e = "MultipartTooLarge" -> 413
      [] e = "MultipartBroken" -> 400

\* Content-Type values: multipart/form-data with a boundary, without one,
\* and another type
FormData == "multipart/form-data; boundary=b"
FormDataNoBoundary == "multipart/form-data"
TextPlain == "text/plain"

\* Field::file_name() of a part that has none
NoFilename == <<-2>>

\* one part of a multipart body: its filename (or none), its bytes, and
\* whether its bytes break off
Part(filename, body, stream_err) ==
    [filename |-> filename, body |-> body, stream_err |-> stream_err]

\* one upload request and where its handler stands; the file part's body
\* arrives in chunks of one byte and may end in a stream error
NewUpload(kind, upload_path, filename, body, stream_err, nanos, timestamp) ==
    [pc |-> "handler", kind |-> kind, upload_path |-> upload_path,
     content_type |-> FormData,
     fields |-> IF kind = "file" THEN <<Part(filename, body, stream_err)>> ELSE <<>>,
     garbled |-> FALSE, read |-> 0,
     filename |-> filename, body |-> body,
     chunks |-> [k \in 1..Len(body) |-> <<body[k]>>], stream_err |-> stream_err,
     nanos |-> nanos, timestamp |-> timestamp,
     target |-> None, temp |-> None, handle |-> 0, written |-> 0,
     result |-> "none", status |-> 0, jail |-> Pending]

\* an upload request with any Content-Type and any parts; garbled: what
\* follows the parts is not multipart
NewMultipart(content_type, fields, garbled, upload_path, nanos, timestamp) ==
    [NewUpload("multipart", upload_path, <<>>, <<>>, "none", nanos, timestamp)
        EXCEPT !.content_type = content_type, !.fields = fields, !.garbled = garbled]

Goto(f, u, pc) == [fs |-> f, u |-> [u EXCEPT !.pc = pc]]
Fail(f, u, e) == [fs |-> f, u |-> [u EXCEPT !.pc = "respond", !.result = e]]

\* a handler that does not look at enable_upload
StepHandlerUngated(f, u, cfg, ino) == Goto(f, u, "extract")

\* handlers/upload.rs:21 and 31, the Multipart extractor ahead of the
\* handler's body (it wants multipart/form-data with a boundary), and
\* handle_upload_impl's enable_upload gate
StepHandler(f, u, cfg, ino) ==
    IF u.content_type # FormData
    THEN [fs |-> f, u |-> [u EXCEPT !.pc = "done", !.status = 400]]
    ELSE IF ~cfg.enable_upload
    THEN [fs |-> f, u |-> [u EXCEPT !.pc = "done", !.status = 403]]
    ELSE Goto(f, u, "extract")

\* a loop that goes on to the last part with a filename
RECURSIVE last_file_field(_, _, _)
last_file_field(fields, garbled, i) ==
    IF i = 0 THEN [found |-> FALSE, read |-> Len(fields)]
    ELSE IF fields[i].filename # NoFilename THEN [found |-> TRUE, read |-> i]
    ELSE last_file_field(fields, garbled, i - 1)

\* handlers/upload.rs:69-94, the loop over multipart.next_field(): the call
\* for part i fails when the part skipped before it broke off, and the call
\* behind the last part fails when the body is garbled
RECURSIVE next_file_field(_, _, _)
next_file_field(fields, garbled, i) ==
    IF i > 1 /\ fields[i - 1].stream_err # "none" THEN [found |-> FALSE, read |-> i - 1]
    ELSE IF i > Len(fields) THEN [found |-> FALSE, read |-> Len(fields)]
    ELSE IF fields[i].filename # NoFilename THEN [found |-> TRUE, read |-> i]
    ELSE next_file_field(fields, garbled, i + 1)

\* the last part with a filename
final_file_field(fields, garbled) == last_file_field(fields, garbled, Len(fields))

\* the loop from its first turn
first_file_field(fields, garbled) == next_file_field(fields, garbled, 1)

\* handlers/upload.rs extract_upload_file: the first field with a filename
\* is the upload, 400 when there is none
StepExtract(f, u, cfg, ino) ==
    LET field == first_file_field(u.fields, u.garbled) IN
    IF ~field.found
    THEN [fs |-> f, u |-> [u EXCEPT !.pc = "done", !.status = 400, !.read = field.read]]
    ELSE [fs |-> f,
          u |-> [u EXCEPT !.pc = "ensure_base", !.read = field.read,
                          !.filename = u.fields[field.read].filename,
                          !.body = u.fields[field.read].body,
                          !.chunks = [k \in 1..Len(u.fields[field.read].body) |->
                                         <<u.fields[field.read].body[k]>>],
                          !.stream_err = u.fields[field.read].stream_err]]

\* uploads.rs ensure_upload_base_dir, fs::metadata(upload_base)
StepEnsureBase(f, u, cfg, ino) ==
    LET m == metadata(f, upload_dir(cfg)) IN
    IF m.err = "none"
    THEN IF m.is_dir THEN Goto(f, u, "resolve") ELSE Fail(f, u, "InvalidBase")
    ELSE IF m.err = "NotFound"
         THEN IF cfg.create_directories THEN Goto(f, u, "ensure_base_mkdir")
              ELSE Fail(f, u, "MissingDirectory")
    ELSE Fail(f, u, "Io")

\* uploads.rs:141, fs::create_dir_all(upload_base)
StepEnsureBaseMkdir(f, u, cfg, ino) ==
    LET r == create_dir_all(f, upload_dir(cfg)) IN
    IF r.err = "none" THEN Goto(r.fs, u, "resolve") ELSE Fail(r.fs, u, "Io")

\* uploads.rs:67-96, the filename policy and the jail
StepResolve(f, u, cfg, ino) ==
    LET r == resolve_target(f, cfg, u.upload_path, u.filename, u.timestamp) IN
    IF ~r.ok THEN Fail(f, [u EXCEPT !.jail = r], r.err)
    ELSE [fs |-> f,
          u |-> [u EXCEPT !.jail = r, !.target = r.path,
                          !.pc = IF r.path = <<>> THEN "open" ELSE "parent_meta"]]

\* uploads.rs:99-115, fs::metadata(parent)
StepParentMeta(f, u, cfg, ino) ==
    LET m == metadata(f, Parent(u.target)) IN
    IF m.err = "none"
    THEN IF m.is_dir THEN Goto(f, u, "open") ELSE Fail(f, u, "ParentNotDirectory")
    ELSE IF m.err = "NotFound"
         THEN IF cfg.create_directories THEN Goto(f, u, "parent_mkdir")
              ELSE Fail(f, u, "MissingDirectory")
    ELSE Fail(f, u, "Io")

\* uploads.rs:108, fs::create_dir_all(parent)
StepParentMkdir(f, u, cfg, ino) ==
    LET r == create_dir_all(f, Parent(u.target)) IN
    IF r.err = "none" THEN Goto(r.fs, u, "open") ELSE Fail(r.fs, u, "Io")

\* an exclusive create that forgets O_EXCL
OpenTargetTruncating(f, u, cfg, ino) ==
    LET r == FileCreate(f, u.target, ino) IN
    IF r.err # "none" THEN Fail(f, u, "Io")
    ELSE [fs |-> r.fs, u |-> [u EXCEPT !.pc = "chunk", !.handle = r.handle]]

\* an exclusive create whose Conflict runs the cleanup of a failed stream
OpenTargetCleaning(f, u, cfg, ino) ==
    LET r == OpenCreateNew(f, u.target, ino) IN
    IF r.err = "AlreadyExists"
    THEN [fs |-> f, u |-> [u EXCEPT !.result = "Conflict", !.pc = "remove_target"]]
    ELSE IF r.err # "none" THEN Fail(f, u, "Io")
    ELSE [fs |-> r.fs, u |-> [u EXCEPT !.pc = "chunk", !.handle = r.handle]]

\* uploads.rs:199-210, the exclusive create of target_path
OpenTarget(f, u, cfg, ino) ==
    LET r == OpenCreateNew(f, u.target, ino) IN
    IF r.err = "AlreadyExists" THEN Fail(f, u, "Conflict")
    ELSE IF r.err # "none" THEN Fail(f, u, "Io")
    ELSE [fs |-> r.fs, u |-> [u EXCEPT !.pc = "chunk", !.handle = r.handle]]

\* uploads.rs:219-220, File::create of the temporary
OpenTemp(f, u, cfg, ino) ==
    LET temp_path == temp_path_for_target(u.target, u.nanos)
        r == FileCreate(f, temp_path, ino)
    IN IF r.err # "none" THEN Fail(f, [u EXCEPT !.temp = temp_path], "Io")
       ELSE [fs |-> r.fs,
             u |-> [u EXCEPT !.pc = "chunk", !.temp = temp_path, !.handle = r.handle]]

\* uploads.rs:198 and 219, write_multipart_field_streaming opens its file
StepOpen(f, u, cfg, ino) ==
    IF cfg.prevent_overwrite THEN OpenTarget(f, u, cfg, ino) ELSE OpenTemp(f, u, cfg, ino)

\* where a failed stream goes: uploads.rs:213 and 224
Cleanup(f, u, cfg, e) ==
    [fs |-> f,
     u |-> [u EXCEPT !.result = e,
                     !.pc = IF cfg.prevent_overwrite THEN "remove_target" ELSE "remove_temp"]]

\* uploads.rs:261, written > max_bytes is too large
ChunkFits(written, max_bytes) == ~(written > max_bytes)

\* uploads.rs write_field_to_file, one turn of the loop: field.chunk() and
\* file.write_all
StepChunk(f, u, cfg, ino) ==
    IF u.chunks = <<>>
    THEN IF u.stream_err # "none" THEN Cleanup(f, u, cfg, u.stream_err)
         ELSE Goto(f, u, "flush")
    ELSE LET chunk == Head(u.chunks)
             written == u.written + Len(chunk)
         IN IF ~ChunkFits(written, cfg.max_request_size)
            THEN Cleanup(f, [u EXCEPT !.written = written], cfg, "PayloadTooLarge")
            ELSE [fs |-> WriteHandle(f, u.handle, u.written, chunk),
                  u |-> [u EXCEPT !.written = written, !.chunks = Tail(u.chunks)]]

\* uploads.rs:268, file.flush(), and the return to the caller
StepFlush(f, u, cfg, ino) ==
    IF cfg.prevent_overwrite
    THEN [fs |-> f, u |-> [u EXCEPT !.pc = "respond", !.result = "Ok"]]
    ELSE Goto(f, u, "rename")

\* an error path that forgets its file
StepForgetFile(f, u, cfg, ino) == Goto(f, u, "respond")

\* a rename that is reported but not done
StepRenameSkipped(f, u, cfg, ino) ==
    [fs |-> f, u |-> [u EXCEPT !.pc = "respond", !.result = "Ok"]]

\* uploads.rs:213-216, the exclusively created file removed after an error
StepRemoveTarget(f, u, cfg, ino) ==
    Goto(remove_file(f, u.target).fs, u, "respond")

\* uploads.rs:224-227, the temporary removed after an error
StepRemoveTemp(f, u, cfg, ino) ==
    Goto(remove_file(f, u.temp).fs, u, "respond")

\* uploads.rs:230-235, fs::rename(temp_path, target_path)
StepRename(f, u, cfg, ino) ==
    LET r == rename(f, u.temp, u.target) IN
    IF r.err # "none"
    THEN [fs |-> f, u |-> [u EXCEPT !.pc = "remove_temp", !.result = "Io"]]
    ELSE [fs |-> r.fs, u |-> [u EXCEPT !.pc = "respond", !.result = "Ok"]]

\* handlers/upload.rs:54-62, the status the handler answers with
StepRespond(f, u, cfg, ino) ==
    [fs |-> f,
     u |-> [u EXCEPT !.pc = "done",
                     !.status = IF u.result = "Ok" THEN 204 ELSE status_code(u.result)]]

\* the handler from one suspension point to the next
UploadStep(f, u, cfg, ino) ==
    CASE u.pc = "handler" -> StepHandler(f, u, cfg, ino)
      [] u.pc = "extract" -> StepExtract(f, u, cfg, ino)
      [] u.pc = "ensure_base" -> StepEnsureBase(f, u, cfg, ino)
      [] u.pc = "ensure_base_mkdir" -> StepEnsureBaseMkdir(f, u, cfg, ino)
      [] u.pc = "resolve" -> StepResolve(f, u, cfg, ino)
      [] u.pc = "parent_meta" -> StepParentMeta(f, u, cfg, ino)
      [] u.pc = "parent_mkdir" -> StepParentMkdir(f, u, cfg, ino)
      [] u.pc = "open" -> StepOpen(f, u, cfg, ino)
      [] u.pc = "chunk" -> StepChunk(f, u, cfg, ino)
      [] u.pc = "flush" -> StepFlush(f, u, cfg, ino)
      [] u.pc = "remove_target" -> StepRemoveTarget(f, u, cfg, ino)
      [] u.pc = "remove_temp" -> StepRemoveTemp(f, u, cfg, ino)
      [] u.pc = "rename" -> StepRename(f, u, cfg, ino)
      [] u.pc = "respond" -> StepRespond(f, u, cfg, ino)

\* a handler nobody interrupts, from the request to its response
RECURSIVE RunUpload(_, _, _)
RunUpload(at, cfg, ino) ==
    IF at.u.pc = "done" THEN at
    ELSE RunUpload(UploadStep(at.fs, at.u, cfg, ino), cfg, ino)

\* ------------------------------------------------------------ file handler

\* axum's Path<String>: the captured path percent-decoded once, rejected
\* when the bytes are not UTF-8
PathExtractor(capture) ==
    LET decoded == percent_decode_str(capture) IN
    [ok |-> Utf8Valid(decoded), value |-> decoded]

ends_with(s, suffix) ==
    Len(suffix) <= Len(s) /\ SubSeq(s, Len(s) - Len(suffix) + 1, Len(s)) = suffix

FaviconPath == <<47, 102, 97, 118, 105, 99, 111, 110, 46, 105, 99, 111>>
IndexHtml == <<105, 110, 100, 101, 120, 46, 104, 116, 109, 108>>
IndexHtm == <<105, 110, 100, 101, 120, 46, 104, 116, 109>>

NoResponse ==
    [method |-> "none", status |-> 0, opened |-> {}, resolved |-> Pending, body |-> <<>>,
     headers |-> <<>>, listing |-> <<>>]

Response(status, opened, resolved, body) ==
    [method |-> "GET", status |-> status, opened |-> opened,
     resolved |-> resolved, body |-> body, headers |-> <<>>, listing |-> <<>>]

\* Response::builder().header(..): the headers a file response carries
WithHeaders(response, headers) == [response EXCEPT !.headers = headers]

\* format!("bytes {start}-{end}/{file_size}") and format!("bytes */{file_size}")
ContentRange(range, file_size) == [unit |-> "bytes", range |-> range, size |-> file_size]

\* files.rs resolve_safe_path: one leading slash stripped, then the jail
resolve_safe_path(f, public_dir, request_path) ==
    LET clean_path == IF request_path # <<>> /\ request_path[1] = Ch.slash
                      THEN Tail(request_path) ELSE request_path
    IN join_path_jailed(f, public_dir, clean_path)

\* a handler that answers a rejected path by what lies behind it
BadPathStatusProbing(f, public_dir, request_path) ==
    IF exists(f, public_dir \o SelectNames(Split(percent_decode_str(request_path), Ch.slash)))
    THEN 403 ELSE 404

\* files.rs:62-65, the status of a request whose path the jail rejected
BadPathStatus(f, public_dir, request_path) == 400

\* a Range header: whether the request has one, whether HeaderValue::to_str
\* accepts it, its unit and its comma-separated range specs
NoRange == [present |-> FALSE, readable |-> FALSE, unit |-> "", specs |-> <<>>]
OpaqueRange == [present |-> TRUE, readable |-> FALSE, unit |-> "", specs |-> <<>>]
RangeHeader(unit, specs) ==
    [present |-> TRUE, readable |-> TRUE, unit |-> unit, specs |-> specs]

\* first-last, first- and -last; Junk is a spec that is none of them
Closed(first, last) == [kind |-> "closed", first |-> first, last |-> last]
From(first) == [kind |-> "from", first |-> first, last |-> 0]
Suffix(last) == [kind |-> "suffix", first |-> 0, last |-> last]
Junk == [kind |-> "junk", first |-> 0, last |-> 0]

\* http_range_header::parse_range_header: the unit must be bytes, there must
\* be a range, and every spec must be one of the three forms
parse_http_range(range) ==
    [ok |-> /\ range.unit = "bytes"
            /\ range.specs # <<>>
            /\ \A i \in 1..Len(range.specs) : range.specs[i].kind # "junk",
     specs |-> range.specs]

\* one spec against the file size, as start and end; clamps tells whether the
\* http_range_header linked cuts an end past the file back to the last byte
\* (and a suffix longer than the file to the whole file) or rejects it
RangeOf(spec, file_size, clamps) ==
    CASE spec.kind = "from" -> <<spec.first, file_size - 1>>
      [] spec.kind = "closed" ->
            <<spec.first,
              IF clamps /\ spec.last > file_size - 1 THEN file_size - 1 ELSE spec.last>>
      [] spec.kind = "suffix" ->
            IF spec.last = 0 THEN <<file_size, file_size - 1>>
            ELSE IF spec.last <= file_size THEN <<file_size - spec.last, file_size - 1>>
            ELSE IF clamps THEN <<0, file_size - 1>>
            ELSE <<file_size, file_size - 1>>
      [] OTHER -> <<file_size, file_size - 1>>

\* ParsedRanges::validate: every range must lie in the file, start before it
\* ends and overlap no other range of the header; anything else rejects the
\* header as a whole
validate(specs, file_size, clamps) ==
    [ok |-> /\ \A i \in 1..Len(specs) :
                  /\ RangeOf(specs[i], file_size, clamps)[1]
                        <= RangeOf(specs[i], file_size, clamps)[2]
                  /\ RangeOf(specs[i], file_size, clamps)[2] < file_size
            /\ \A i, j \in 1..Len(specs) :
                  i < j =>
                     \/ RangeOf(specs[i], file_size, clamps)[2]
                           < RangeOf(specs[j], file_size, clamps)[1]
                     \/ RangeOf(specs[j], file_size, clamps)[2]
                           < RangeOf(specs[i], file_size, clamps)[1],
     ranges |-> [i \in 1..Len(specs) |-> RangeOf(specs[i], file_size, clamps)]]

\* files.rs serve_full_file
serve_full_file(c, data, resolved) ==
    WithHeaders(Response(200, {c}, resolved, data),
                ("Content-Length" :> Len(data)) @@ ("Accept-Ranges" :> "bytes"))

\* files.rs serve_partial_file: seek to start, take end - start + 1 bytes
serve_partial_file(c, data, start, end, resolved) ==
    WithHeaders(Response(206, {c}, resolved, SubSeq(data, start + 1, end + 1)),
                ("Content-Length" :> end - start + 1) @@ ("Accept-Ranges" :> "bytes")
                @@ ("Content-Range" :> ContentRange(<<start, end>>, Len(data))))

\* files.rs:112-117, 144-162: 416 with Content-Range: bytes */size
range_not_satisfiable(c, data, resolved) ==
    WithHeaders(Response(416, {c}, resolved, <<>>),
                "Content-Range" :> ContentRange(<<>>, Len(data)))

\* files.rs:127-139, the first of the validated ranges is served
serve_first_range(c, data, ranges, resolved) ==
    serve_partial_file(c, data, ranges[1][1], ranges[1][2], resolved)

\* files.rs handle_file_request on an opened file with its bytes
serve_file(c, data, headers, clamps, resolved) ==
    IF ~headers.present THEN serve_full_file(c, data, resolved)
    ELSE IF ~headers.readable THEN range_not_satisfiable(c, data, resolved)
    ELSE IF ~parse_http_range(headers).ok THEN range_not_satisfiable(c, data, resolved)
    ELSE IF ~validate(headers.specs, Len(data), clamps).ok
         THEN range_not_satisfiable(c, data, resolved)
    ELSE IF Len(validate(headers.specs, Len(data), clamps).ranges) = 0
         THEN serve_full_file(c, data, resolved)
    ELSE serve_first_range(c, data, validate(headers.specs, Len(data), clamps).ranges,
                           resolved)

\* files.rs handle_file_request: File::open, the metadata, then the Range
\* header
handle_file_request(f, file_path, headers, clamps, resolved) ==
    IF IsErrPath(canonicalize(f, file_path)) THEN Response(500, {}, resolved, <<>>)
    ELSE IF ~Readable(f, canonicalize(f, file_path)) THEN Response(500, {}, resolved, <<>>)
    ELSE serve_file(canonicalize(f, file_path),
                    IF KindOf(f, canonicalize(f, file_path)) = "file"
                    THEN f[canonicalize(f, file_path)].data ELSE <<>>,
                    headers, clamps, resolved)

\* utils/files.rs escape_html on one byte: & < > " '
EscapeByte(b) ==
    CASE b = 38 -> <<38, 97, 109, 112, 59>>
      [] b = 60 -> <<38, 108, 116, 59>>
      [] b = 62 -> <<38, 103, 116, 59>>
      [] b = 34 -> <<38, 113, 117, 111, 116, 59>>
      [] b = 39 -> <<38, 35, 120, 50, 55, 59>>
      [] OTHER -> <<b>>

\* utils/files.rs escape_html
RECURSIVE escape_html(_)
escape_html(input) ==
    IF input = <<>> THEN <<>> ELSE EscapeByte(Head(input)) \o escape_html(Tail(input))

\* Ord for byte strings, as String::cmp
RECURSIVE Less(_, _)
Less(a, b) ==
    IF b = <<>> THEN FALSE
    ELSE IF a = <<>> THEN TRUE
    ELSE IF Head(a) # Head(b) THEN Head(a) < Head(b)
    ELSE Less(Tail(a), Tail(b))

\* utils/files.rs collect_directory_entries: the names in the directory;
\* DirEntry::metadata does not follow a link, so a link is never is_dir
collect_directory_entries(f, dir_path) ==
    { [name |-> Last(p), is_dir |-> f[p].kind = "dir"] :
        p \in { q \in DOMAIN f : q # <<>> /\ Parent(q) = dir_path } }

\* files.rs:294-298, directories first, then by name
Before(a, b) ==
    \/ a.is_dir /\ ~b.is_dir
    \/ a.is_dir = b.is_dir /\ Less(a.name, b.name)

RECURSIVE Sorted(_)
Sorted(entries) ==
    IF entries = {} THEN <<>>
    ELSE <<CHOOSE e \in entries : \A o \in entries \ {e} : Before(e, o)>>
         \o Sorted(entries \ {CHOOSE e \in entries : \A o \in entries \ {e} : Before(e, o)})

\* files.rs:370-381, entry_path and final_entry_path
EntryHref(entry, request_path) ==
    request_path
    \o (IF ends_with(request_path, <<Ch.slash>>) THEN <<>> ELSE <<Ch.slash>>)
    \o entry.name
    \o (IF entry.is_dir THEN <<Ch.slash>> ELSE <<>>)

\* files.rs build_listing_html: the rows of the table, each with the href
\* and the text as they stand in the HTML, and the entry they are for
build_listing_html(sorted_entries, request_path) ==
    (IF request_path # <<Ch.slash>>
     THEN <<[href |-> <<46, 46, 47>>, text |-> <<46, 46, 47>>, name |-> DotDot, is_dir |-> TRUE]>>
     ELSE <<>>)
    \o [i \in 1..Len(sorted_entries) |->
          [href |-> escape_html(EntryHref(sorted_entries[i], request_path)),
           text |-> escape_html(sorted_entries[i].name
                                \o (IF sorted_entries[i].is_dir THEN <<Ch.slash>> ELSE <<>>)),
           name |-> sorted_entries[i].name,
           is_dir |-> sorted_entries[i].is_dir]]

\* files.rs generate_directory_listing, no ignore file configured; a
\* directory that cannot be read is INTERNAL_SERVER_ERROR (files.rs:268-271)
generate_directory_listing(f, dir_path, request_path, resolved) ==
    IF ~Readable(f, dir_path) THEN Response(500, {}, resolved, <<>>)
    ELSE
    [Response(200, {}, resolved, <<>>) EXCEPT
        !.headers = "Content-Type" :> "text/html; charset=utf-8",
        !.listing = build_listing_html(Sorted(collect_directory_entries(f, dir_path)),
                                       request_path)]

\* files.rs handle_directory_request: the redirect, an index file (served
\* with HeaderMap::new()), the listing
handle_directory_request(f, dir_path, request_path, clamps, resolved) ==
    IF ~ends_with(request_path, <<Ch.slash>>)
    THEN WithHeaders(Response(301, {}, resolved, <<>>),
                     "Location" :> (request_path \o <<Ch.slash>>))
    ELSE IF is_file(f, Append(dir_path, IndexHtml))
         THEN handle_file_request(f, Append(dir_path, IndexHtml), NoRange, clamps, resolved)
    ELSE IF is_file(f, Append(dir_path, IndexHtm))
         THEN handle_file_request(f, Append(dir_path, IndexHtm), NoRange, clamps, resolved)
    ELSE generate_directory_listing(f, dir_path, request_path, resolved)

\* files.rs handle_request_internal
handle_request_internal(f, public_dir, file_path, headers, clamps) ==
    LET resolved == resolve_safe_path(f, public_dir, file_path) IN
    IF ~resolved.ok
    THEN Response(BadPathStatus(f, public_dir, file_path), {}, resolved, <<>>)
    ELSE IF ends_with(file_path, FaviconPath) /\ ~exists(f, resolved.path)
         THEN Response(200, {}, resolved, <<>>)
    ELSE IF ~exists(f, resolved.path) THEN Response(404, {}, resolved, <<>>)
    ELSE IF is_dir(f, resolved.path)
         THEN handle_directory_request(f, resolved.path, file_path, clamps, resolved)
    ELSE handle_file_request(f, resolved.path, headers, clamps, resolved)

\* files.rs handle_root_request and handle_request, behind the router: "/"
\* goes to the root handler, anything else through the extractor
handle_request(f, public_dir, capture, headers, clamps) ==
    IF capture = <<>> THEN handle_request_internal(f, public_dir, <<Ch.slash>>, headers, clamps)
    ELSE LET file_path == PathExtractor(capture) IN
         IF ~file_path.ok THEN Response(400, {}, Pending, <<>>)
         ELSE handle_request_internal(f, public_dir,
                  IF file_path.value # <<>> /\ file_path.value[1] = Ch.slash
                  THEN file_path.value ELSE <<Ch.slash>> \o file_path.value,
                  headers, clamps)

\* upload.rs handle_root_upload_request and handle_upload_request, run to the
\* response: "/" uploads to "", anything else goes through the extractor
handle_upload_request(f, config, capture, upload) ==
    IF capture # <<>> /\ ~PathExtractor(capture).ok
    THEN [fs |-> f, u |-> [upload EXCEPT !.pc = "done", !.status = 400]]
    ELSE RunUpload([fs |-> f,
                    u |-> [upload EXCEPT !.upload_path = PathExtractor(capture).value]],
                   config, 1)

\* ------------------------------------------------- the jail, explored

\* names used by the layouts: j (the public directory), o (outside), b (a
\* link to the public directory), s (a file), l (a link or a directory),
\* m (missing), u (an upload directory not yet made)
n_j == <<106>>
n_o == <<111>>
n_b == <<98>>
n_s == <<115>>
n_l == <<108>>
n_m == <<109>>
n_u == <<117>>

Secret == <<83>>
Public == <<80>>
Posted == <<85>>

BaseTree ==
    (<<n_j>> :> Dir) @@ (<<n_j, n_s>> :> File(Public, -1)) @@
    (<<n_o>> :> Dir) @@ (<<n_o, n_s>> :> File(Secret, -2)) @@
    (<<n_b>> :> Link(<<n_j>>))

World(f, base) == [fs |-> f, base |-> base]

\* a layout and the base directory used on it: no link; the base itself a
\* link; a link to a directory outside; to a file outside; a real directory
\* holding a link back to the base and one that loops; a dangling link; the
\* outside file absent; the base missing
JailWorlds ==
    { World(BaseTree, <<n_j>>),
      World(BaseTree, <<n_b>>),
      World(BaseTree @@ (<<n_j, n_l>> :> Link(<<n_o>>)), <<n_j>>),
      World(BaseTree @@ (<<n_j, n_l>> :> Link(<<n_o, n_s>>)), <<n_j>>),
      World(BaseTree @@ (<<n_j, n_l>> :> Dir) @@ (<<n_j, n_l, n_l>> :> Link(<<n_j>>))
               @@ (<<n_j, n_l, n_s>> :> Link(<<n_j, n_l, n_s>>)), <<n_b>>),
      World(BaseTree @@ (<<n_j, n_l>> :> Link(<<n_o, n_m>>)), <<n_j>>),
      World((<<n_j>> :> Dir) @@ (<<n_j, n_s>> :> File(Public, -1)) @@ (<<n_o>> :> Dir)
               @@ (<<n_b>> :> Link(<<n_j>>)) @@ (<<n_j, n_l>> :> Link(<<n_o>>)), <<n_j>>),
      World(BaseTree, <<n_m>>) }

\* the pieces a client builds a request path from
PathTokens ==
    { n_s, n_l, <<Ch.slash>>, DotDot,
      <<37, 50, 102>>,    \* %2f
      <<37, 50, 70>>,     \* %2F
      <<Ch.bslash>>,
      <<37, 53, 99>>,     \* %5c
      <<37, 48, 48>>,     \* %00
      <<37, 102, 102>> }  \* %ff

MaxTokens == 3
MaxRequestSize == 2

\* the configurations an upload POST is tried under: uploads into the public
\* directory, or into an upload directory the first upload has to make
JailConfig(public_dir, upload_directory, prevent_overwrite) ==
    [public_dir |-> public_dir, upload_dir |-> upload_directory,
     enable_upload |-> TRUE, prepend_timestamp |-> FALSE,
     prevent_overwrite |-> prevent_overwrite, create_directories |-> TRUE,
     max_request_size |-> MaxRequestSize]

NoConfig == JailConfig(<<>>, None, FALSE)
NoRequest == [stage |-> "none"]

InitJail ==
    /\ \E w \in JailWorlds : fs = w.fs /\ base_dir = w.base
    /\ fs0 = fs
    /\ component = <<>>
    /\ ntokens = 0
    /\ jail_result = Pending
    /\ resp = NoResponse
    /\ state_config = NoConfig
    /\ uploads = <<>>
    /\ http = NoRequest

Untouched == jail_result = Pending /\ resp = NoResponse

\* the client writes one more piece of the request path
ExtendPath ==
    /\ Untouched
    /\ ntokens < MaxTokens
    /\ \E t \in PathTokens : component' = component \o t
    /\ ntokens' = ntokens + 1
    /\ UNCHANGED <<fs, fs0, base_dir, jail_result, resp, state_config, uploads, http>>

\* join_path_jailed(base_dir, component) is called
JoinPathJailed ==
    /\ Untouched
    /\ jail_result' = join_path_jailed(fs, base_dir, component)
    /\ UNCHANGED <<fs, fs0, base_dir, component, ntokens, resp, state_config, uploads, http>>

\* GET or HEAD of /component
HandleGet ==
    /\ Untouched
    /\ \E method \in {"GET", "HEAD"} :
          LET r == handle_request(fs, base_dir, component, NoRange, FALSE) IN
          resp' = [r EXCEPT !.method = method,
                            !.body = IF method = "HEAD" THEN <<>> ELSE @]
    /\ UNCHANGED <<fs, fs0, base_dir, component, ntokens, jail_result, state_config, uploads, http>>

\* POST of one file named "s" to /component
HandlePost ==
    /\ Untouched
    /\ \E upload_directory \in {None, <<n_u>>}, prevent_overwrite \in BOOLEAN :
          /\ state_config' = JailConfig(base_dir, upload_directory, prevent_overwrite)
          /\ \E r \in {handle_upload_request(fs, state_config', component,
                            NewUpload("file", <<>>, n_s, Posted, "none", <<49>>, <<50>>))} :
                /\ fs' = r.fs
                /\ resp' = [method |-> "POST", status |-> r.u.status, opened |-> {},
                            headers |-> <<>>, listing |-> <<>>,
                            resolved |-> r.u.jail, body |-> <<>>]
    /\ UNCHANGED <<fs0, base_dir, component, ntokens, jail_result, uploads, http>>

NextJail == ExtendPath \/ JoinPathJailed \/ HandleGet \/ HandlePost

SpecJail == InitJail /\ [][NextJail]_vars

\* ------------------------------------------------ uploads, interleaved

n_p == <<112>>
n_d == <<100>>
n_a == <<97>>
n_a1tmp == <<97, 46, 49, 46, 116, 109, 112>>
Old == <<79>>

Uploads == {1, 2}

UploadTree ==
    (<<n_p>> :> Dir) @@ (<<n_p, n_s>> :> File(Public, -1)) @@ (<<n_p, n_u>> :> Dir) @@
    (<<n_u>> :> Dir) @@ (<<n_u, n_l>> :> Link(<<n_p>>))

UploadConfig(upload_directory, enable_upload, prevent_overwrite, create_directories) ==
    [public_dir |-> <<n_p>>, upload_dir |-> upload_directory,
     enable_upload |-> enable_upload, prepend_timestamp |-> FALSE,
     prevent_overwrite |-> prevent_overwrite, create_directories |-> create_directories,
     max_request_size |-> MaxRequestSize]

\* a filesystem and the configuration the server was started with on it: a
\* separate upload directory with and without a file already named "a", for
\* both overwrite modes; an upload directory still to be made; uploads into
\* the public directory; an upload directory inside the public one; uploads
\* switched off
UploadWorlds ==
    { World(UploadTree, UploadConfig(<<n_u>>, TRUE, TRUE, TRUE)),
      World(UploadTree, UploadConfig(<<n_u>>, TRUE, FALSE, TRUE)),
      World(UploadTree @@ (<<n_u, n_a>> :> File(Old, -3)),
            UploadConfig(<<n_u>>, TRUE, TRUE, FALSE)),
      World(UploadTree @@ (<<n_u, n_a>> :> File(Old, -3)),
            UploadConfig(<<n_u>>, TRUE, FALSE, FALSE)),
      World(UploadTree, UploadConfig(<<n_m>>, TRUE, FALSE, TRUE)),
      World(UploadTree, UploadConfig(None, TRUE, TRUE, TRUE)),
      World(UploadTree, UploadConfig(<<n_p, n_u>>, TRUE, FALSE, TRUE)),
      World(UploadTree, UploadConfig(<<n_u>>, FALSE, TRUE, TRUE)) }

Idle == [NewUpload("none", <<>>, <<>>, <<>>, "none", <<>>, <<>>) EXCEPT !.pc = "idle"]

\* the bytes upload i sends: n of its own byte
BodyOf(i, n) == [k \in 1..n |-> 64 + i]

\* what a client may send as upload i: the first into "", "d", ".." or "l",
\* with a body that fits, one that is too long, or one that breaks off; the
\* second into "" with a body that fits or one that is too long
UploadRequests(i) ==
    IF i = 1
    THEN { NewUpload("file", path, name, BodyOf(i, b.len), b.err, <<48 + i>>, <<50>>) :
              path \in {<<>>, n_d, DotDot, n_l},
              name \in {n_a, n_a1tmp},
              b \in { [len |-> MaxRequestSize, err |-> "none"],
                      [len |-> MaxRequestSize + 1, err |-> "none"],
                      [len |-> 1, err |-> "MultipartBroken"] } }
    ELSE { NewUpload("file", <<>>, name, BodyOf(i, len), "none", <<48 + i>>, <<50>>) :
              name \in {n_a, n_a1tmp}, len \in {1, MaxRequestSize + 1} }

InitUpload ==
    /\ \E w \in UploadWorlds : fs = w.fs /\ state_config = w.base
    /\ fs0 = fs
    /\ uploads = [i \in Uploads |-> Idle]
    /\ base_dir = <<>>
    /\ component = <<>>
    /\ ntokens = 0
    /\ jail_result = Pending
    /\ resp = NoResponse
    /\ http = NoRequest

\* upload i's handler moved on: the filesystem and its own record change
Moved(i, next) ==
    /\ fs' = next.fs
    /\ uploads' = [uploads EXCEPT ![i] = next.u]
    /\ UNCHANGED <<fs0, base_dir, component, ntokens, jail_result, resp, state_config, http>>

At(i, pc) == uploads[i].pc = pc

\* a POST arrives and is routed to the upload handler
Arrive ==
    \E i \in Uploads :
        /\ At(i, "idle")
        /\ \E request \in UploadRequests(i) : Moved(i, [fs |-> fs, u |-> request])

\* the client goes away and the handler's future is dropped where it waits:
\* the open file is closed, nothing else runs
Cancel ==
    \E i \in Uploads :
        /\ uploads[i].pc \notin {"idle", "done", "cancelled"}
        /\ Moved(i, [fs |-> fs, u |-> [uploads[i] EXCEPT !.pc = "cancelled"]])

Handler ==
    \E i \in Uploads : At(i, "handler") /\
        \E next \in {StepHandler(fs, uploads[i], state_config, i)} : Moved(i, next)

Extract ==
    \E i \in Uploads : At(i, "extract") /\
        \E next \in {StepExtract(fs, uploads[i], state_config, i)} : Moved(i, next)

EnsureBase ==
    \E i \in Uploads : At(i, "ensure_base") /\
        \E next \in {StepEnsureBase(fs, uploads[i], state_config, i)} : Moved(i, next)

EnsureBaseMkdir ==
    \E i \in Uploads : At(i, "ensure_base_mkdir") /\
        \E next \in {StepEnsureBaseMkdir(fs, uploads[i], state_config, i)} : Moved(i, next)

ResolveTarget ==
    \E i \in Uploads : At(i, "resolve") /\
        \E next \in {StepResolve(fs, uploads[i], state_config, i)} : Moved(i, next)

ParentMeta ==
    \E i \in Uploads : At(i, "parent_meta") /\
        \E next \in {StepParentMeta(fs, uploads[i], state_config, i)} : Moved(i, next)

ParentMkdir ==
    \E i \in Uploads : At(i, "parent_mkdir") /\
        \E next \in {StepParentMkdir(fs, uploads[i], state_config, i)} : Moved(i, next)

Open ==
    \E i \in Uploads : At(i, "open") /\
        \E next \in {StepOpen(fs, uploads[i], state_config, i)} : Moved(i, next)

Chunk ==
    \E i \in Uploads : At(i, "chunk") /\
        \E next \in {StepChunk(fs, uploads[i], state_config, i)} : Moved(i, next)

Flush ==
    \E i \in Uploads : At(i, "flush") /\
        \E next \in {StepFlush(fs, uploads[i], state_config, i)} : Moved(i, next)

RemoveTarget ==
    \E i \in Uploads : At(i, "remove_target") /\
        \E next \in {StepRemoveTarget(fs, uploads[i], state_config, i)} : Moved(i, next)

RemoveTemp ==
    \E i \in Uploads : At(i, "remove_temp") /\
        \E next \in {StepRemoveTemp(fs, uploads[i], state_config, i)} : Moved(i, next)

Rename ==
    \E i \in Uploads : At(i, "rename") /\
        \E next \in {StepRename(fs, uploads[i], state_config, i)} : Moved(i, next)

Respond ==
    \E i \in Uploads : At(i, "respond") /\
        \E next \in {StepRespond(fs, uploads[i], state_config, i)} : Moved(i, next)

NextUpload ==
    \/ Arrive \/ Cancel \/ Handler \/ Extract \/ EnsureBase \/ EnsureBaseMkdir
    \/ ResolveTarget \/ ParentMeta \/ ParentMkdir \/ Open \/ Chunk \/ Flush
    \/ RemoveTarget \/ RemoveTemp \/ Rename \/ Respond

SpecUpload == InitUpload /\ [][NextUpload]_vars

\* --------------------------------------------------------- files, served

\* upper-case hexadecimal digit
HexDigit(n) == IF n < 10 THEN 48 + n ELSE 55 + n

\* paths.rs PATH_SEGMENT_ENCODE_SET: the controls, space " # % < > ? ` { } \
\* (utf8_percent_encode also encodes every byte past 127)
PATH_SEGMENT_ENCODE_SET == (0..31) \cup {127} \cup {32, 34, 35, 37, 60, 62, 63, 96, 123, 125, 92}

\* percent_encoding::utf8_percent_encode
RECURSIVE utf8_percent_encode(_, _)
utf8_percent_encode(segment, set) ==
    IF segment = <<>> THEN <<>>
    ELSE (IF Head(segment) \in set \/ Head(segment) > 127
          THEN <<Ch.pct, HexDigit(Head(segment) \div 16), HexDigit(Head(segment) % 16)>>
          ELSE <<Head(segment)>>)
         \o utf8_percent_encode(Tail(segment), set)

\* paths.rs:50-59, the loop over path.split('/')
RECURSIVE EncodeSegments(_, _)
EncodeSegments(segments, index) ==
    IF index > Len(segments) THEN <<>>
    ELSE (IF index > 1 THEN <<Ch.slash>> ELSE <<>>)
         \o utf8_percent_encode(segments[index], PATH_SEGMENT_ENCODE_SET)
         \o EncodeSegments(segments, index + 1)

\* paths.rs encode_path_segments
encode_path_segments(path) ==
    IF path = <<>> THEN <<>> ELSE EncodeSegments(Split(path, Ch.slash), 1)

\* names in the served tree: f (abcdef), t (xyz), i (a directory with both
\* index files), h (index.html a directory, index.htm a file), d (a directory
\* to list), c (a directory in d), e (a file in c), and files in d named
\* "a b", "a#b", "a?b", "a&b", "%41", "A", "%2F"; k (a file the server
\* may not read), q (a directory it may not read or search), r (a directory
\* it may not write to)
n_k == <<107>>
n_q == <<113>>
n_r == <<114>>
n_f == <<102>>
n_t == <<116>>
n_i == <<105>>
n_h == <<104>>
n_c == <<99>>
n_e == <<101>>
n_space == <<97, 32, 98>>
n_hash == <<97, 35, 98>>
n_query == <<97, 63, 98>>
n_amp == <<97, 38, 98>>
n_pct41 == <<37, 52, 49>>
n_A == <<65>>
n_pct2F == <<37, 50, 70>>

Abcdef == <<97, 98, 99, 100, 101, 102>>
Xyz == <<120, 121, 122>>

ServedTree ==
    (<<n_p>> :> Dir)
    @@ (<<n_p, n_f>> :> File(Abcdef, -10)) @@ (<<n_p, n_t>> :> File(Xyz, -11))
    @@ (<<n_p, n_i>> :> Dir)
    @@ (<<n_p, n_i, IndexHtml>> :> File(Abcdef, -12))
    @@ (<<n_p, n_i, IndexHtm>> :> File(Xyz, -13))
    @@ (<<n_p, n_h>> :> Dir)
    @@ (<<n_p, n_h, IndexHtml>> :> Dir)
    @@ (<<n_p, n_h, IndexHtm>> :> File(Xyz, -14))
    @@ (<<n_p, n_d>> :> Dir)
    @@ (<<n_p, n_d, n_c>> :> Dir) @@ (<<n_p, n_d, n_c, n_e>> :> File(<<101>>, -15))
    @@ (<<n_p, n_d, n_space>> :> File(<<49>>, -16))
    @@ (<<n_p, n_d, n_hash>> :> File(<<50>>, -17))
    @@ (<<n_p, n_d, n_query>> :> File(<<51>>, -18))
    @@ (<<n_p, n_d, n_amp>> :> File(<<52>>, -19))
    @@ (<<n_p, n_d, n_pct41>> :> File(<<53>>, -20))
    @@ (<<n_p, n_d, n_A>> :> File(<<54>>, -21))
    @@ (<<n_p, n_d, n_pct2F>> :> File(<<55>>, -22))
    @@ (<<n_p, n_k>> :> Chmod(File(Secret, -23), "---"))
    @@ (<<n_p, n_q>> :> Chmod(Dir, "---"))
    @@ (<<n_p, n_q, n_e>> :> File(<<101>>, -24))
    @@ (<<n_p, n_r>> :> Chmod(Dir, "r-x"))

\* the configuration of the file server: the public directory, and which
\* http_range_header the build links
FilesConfig(public_dir, range_clamps, prepend_timestamp) ==
    [public_dir |-> public_dir, upload_dir |-> None,
     enable_upload |-> TRUE, prepend_timestamp |-> prepend_timestamp,
     prevent_overwrite |-> FALSE, create_directories |-> TRUE,
     max_request_size |-> MaxRequestSize, range_clamps |-> range_clamps]

MaxOffset == 4

\* the specs a Range header is made of, with offsets up to MaxOffset
RangeSpecs ==
    {Closed(first, last) : first \in 0..MaxOffset, last \in 0..MaxOffset}
    \cup {From(first) : first \in 0..MaxOffset}
    \cup {Suffix(last) : last \in 0..MaxOffset}
    \cup {Junk}

\* no header, an unreadable one, another unit, no range, one range, two
RangeHeaders ==
    {NoRange, OpaqueRange, RangeHeader("items", <<Closed(0, 1)>>), RangeHeader("bytes", <<>>)}
    \cup {RangeHeader("bytes", <<spec>>) : spec \in RangeSpecs}
    \cup {RangeHeader("bytes", <<one, two>>) : one \in RangeSpecs, two \in RangeSpecs}

\* a name as a URL writes it
Enc(name) == utf8_percent_encode(name, PATH_SEGMENT_ENCODE_SET)

\* the paths requested, as the router captures them: the root, the files,
\* the directories with and without the trailing slash, and every file of d
\* under its properly encoded name and under its bare name
FileCaptures ==
    { <<>>, n_f, n_t, n_i, n_i \o <<Ch.slash>>, n_h \o <<Ch.slash>>,
      n_i \o <<Ch.slash>> \o IndexHtm,
      n_k, n_q \o <<Ch.slash>>, n_q \o <<Ch.slash>> \o n_e, n_r \o <<Ch.slash>>, n_m,
      n_d, n_d \o <<Ch.slash>>, n_d \o <<Ch.slash>> \o n_c \o <<Ch.slash>>,
      n_d \o <<Ch.slash>> \o n_c \o <<Ch.slash>> \o n_e }
    \cup { n_d \o <<Ch.slash>> \o Enc(name) :
             name \in {n_space, n_hash, n_query, n_amp, n_pct41, n_A, n_pct2F} }
    \cup { n_d \o <<Ch.slash>> \o name : name \in {n_amp, n_pct41, n_pct2F} }

InitFiles ==
    /\ fs = ServedTree
    /\ fs0 = fs
    /\ base_dir = <<n_p>>
    /\ state_config \in {FilesConfig(<<n_p>>, clamps, prepend) :
                            clamps \in BOOLEAN, prepend \in BOOLEAN}
    /\ component = <<>>
    /\ ntokens = 0
    /\ jail_result = Pending
    /\ resp = NoResponse
    /\ uploads = <<>>
    /\ http = NoRequest

\* what the client reads out of an href attribute: the five entities back
\* to their characters
RECURSIVE html_unescape(_)
html_unescape(text) ==
    IF text = <<>> THEN <<>>
    ELSE IF Len(text) >= 5 /\ SubSeq(text, 1, 5) = <<38, 97, 109, 112, 59>>
         THEN <<38>> \o html_unescape(SubSeq(text, 6, Len(text)))
    ELSE IF Len(text) >= 4 /\ SubSeq(text, 1, 4) = <<38, 108, 116, 59>>
         THEN <<60>> \o html_unescape(SubSeq(text, 5, Len(text)))
    ELSE IF Len(text) >= 4 /\ SubSeq(text, 1, 4) = <<38, 103, 116, 59>>
         THEN <<62>> \o html_unescape(SubSeq(text, 5, Len(text)))
    ELSE IF Len(text) >= 6 /\ SubSeq(text, 1, 6) = <<38, 113, 117, 111, 116, 59>>
         THEN <<34>> \o html_unescape(SubSeq(text, 7, Len(text)))
    ELSE IF Len(text) >= 6 /\ SubSeq(text, 1, 6) = <<38, 35, 120, 50, 55, 59>>
         THEN <<39>> \o html_unescape(SubSeq(text, 7, Len(text)))
    ELSE <<Head(text)>> \o html_unescape(Tail(text))

\* the part of a URL reference before its first # or ?
RECURSIVE UrlPath(_)
UrlPath(reference) ==
    IF reference = <<>> \/ Head(reference) \in {35, 63} THEN <<>>
    ELSE <<Head(reference)>> \o UrlPath(Tail(reference))

\* a path up to and with its last slash
RECURSIVE UpToLastSlash(_)
UpToLastSlash(path) ==
    IF path = <<>> \/ path[Len(path)] = Ch.slash THEN path
    ELSE UpToLastSlash(SubSeq(path, 1, Len(path) - 1))

\* the characters a client percent-encodes in a path before sending it; a %
\* stays as it is
UrlPathEncodeSet == (0..31) \cup {127} \cup {32, 34, 35, 60, 62, 63, 96, 123, 125}

\* remove_dot_segments over the segments of a path
RECURSIVE RemoveDots(_, _)
RemoveDots(segments, out) ==
    IF segments = <<>> THEN out
    ELSE IF Head(segments) = Dot THEN RemoveDots(Tail(segments), out)
    ELSE IF Head(segments) = DotDot
         THEN RemoveDots(Tail(segments),
                         IF out = <<>> THEN out ELSE SubSeq(out, 1, Len(out) - 1))
    ELSE RemoveDots(Tail(segments), Append(out, Head(segments)))

RECURSIVE JoinSlash(_)
JoinSlash(segments) ==
    IF segments = <<>> THEN <<>>
    ELSE Head(segments) \o (IF Len(segments) > 1 THEN <<Ch.slash>> ELSE <<>>)
         \o JoinSlash(Tail(segments))

\* the path a client requests when it follows the href of a page it got from
\* base: the reference without query and fragment, resolved against base,
\* dot segments removed, percent-encoded; as the router captures it
FollowHref(base, href) ==
    JoinSlash(RemoveDots(
        Split(utf8_percent_encode(
                  IF UrlPath(html_unescape(href)) # <<>>
                       /\ Head(UrlPath(html_unescape(href))) = Ch.slash
                  THEN Tail(UrlPath(html_unescape(href)))
                  ELSE UpToLastSlash(base) \o UrlPath(html_unescape(href)),
                  UrlPathEncodeSet),
              Ch.slash),
        <<>>))

\* a GET or HEAD of a path with a Range header; axum answers a HEAD with
\* the GET handler's response without its body
GetFile ==
    /\ http.stage = "none"
    /\ \E method \in {"GET", "HEAD"}, capture \in FileCaptures, range \in RangeHeaders :
          /\ capture \notin {n_f, n_t, n_i \o <<Ch.slash>>, n_h \o <<Ch.slash>>}
                => range \in {NoRange, RangeHeader("bytes", <<Closed(0, 2)>>)}
          /\ \E r \in {handle_request(fs, state_config.public_dir, capture, range,
                                      state_config.range_clamps)} :
                resp' = [r EXCEPT !.method = method,
                                  !.body = IF method = "HEAD" THEN <<>> ELSE @]
          /\ http' = [stage |-> "requested", method |-> method, capture |-> capture,
                      range |-> range, listed |-> <<>>, row |-> 0]
    /\ UNCHANGED <<fs, fs0, base_dir, component, ntokens, jail_result, state_config, uploads>>

\* the client follows a link of the listing it was served
FollowLink ==
    /\ http.stage = "requested"
    /\ resp.method = "GET" /\ resp.status = 200
    /\ \E row \in 1..Len(resp.listing) :
          /\ \E r \in {handle_request(fs, state_config.public_dir,
                                      FollowHref(http.capture, resp.listing[row].href),
                                      NoRange, state_config.range_clamps)} :
                resp' = r
          /\ http' = [stage |-> "followed", method |-> "GET",
                      capture |-> FollowHref(http.capture, resp.listing[row].href),
                      range |-> NoRange,
                      listed |-> Append(resp.resolved.path, resp.listing[row].name),
                      row |-> row]
    /\ UNCHANGED <<fs, fs0, base_dir, component, ntokens, jail_result, state_config, uploads>>

\* the multipart filenames uploaded: plain names, names with a % and with
\* whole percent-escapes in them, and names sanitize_filename refuses
n_pct == <<37>>
n_pct25 == <<37, 50, 53>>
n_slashed == <<97, 47, 98>>
Filenames == {n_a, n_A, n_space, n_pct, n_pct25, n_pct41, n_pct2F, DotDot, n_slashed}

Timestamp == <<50>>

\* a POST of one file to the root or to /d, run to its response
PostFile ==
    /\ http.stage = "none"
    /\ \E capture \in {<<>>, n_d, n_d \o <<Ch.slash>>, n_r}, filename \in Filenames :
          /\ \E r \in {handle_upload_request(fs, state_config, capture,
                            NewUpload("file", <<>>, filename, Posted, "none", <<49>>,
                                      Timestamp))} :
                /\ fs' = r.fs
                /\ resp' = [method |-> "POST", status |-> r.u.status, opened |-> {},
                            headers |-> <<>>, listing |-> <<>>,
                            resolved |-> r.u.jail, body |-> <<>>]
          /\ http' = [stage |-> "posted", method |-> "POST", capture |-> capture,
                      range |-> NoRange, listed |-> <<>>, row |-> 0,
                      filename |-> filename]
    /\ UNCHANGED <<fs0, base_dir, component, ntokens, jail_result, state_config, uploads>>

NextFiles == GetFile \/ FollowLink \/ PostFile

SpecFiles == InitFiles /\ [][NextFiles]_vars

\* ---------------------------------------------------- uploads, one by one

n_x == <<120>>
n_n == <<110>>

\* the tree uploads go to: the public directory p is the upload root; in it
\* the file s, the directory d with the file a and the directory c
PostTree ==
    (<<n_p>> :> Dir) @@ (<<n_p, n_s>> :> File(Public, -1))
    @@ (<<n_p, n_d>> :> Dir) @@ (<<n_p, n_d, n_a>> :> File(Old, -3))
    @@ (<<n_p, n_d, n_c>> :> Dir)

PostConfig(enable_upload, prepend_timestamp, prevent_overwrite, create_directories) ==
    [public_dir |-> <<n_p>>, upload_dir |-> None,
     enable_upload |-> enable_upload, prepend_timestamp |-> prepend_timestamp,
     prevent_overwrite |-> prevent_overwrite, create_directories |-> create_directories,
     max_request_size |-> MaxRequestSize]

\* the request paths uploads are posted to: the root, d, d/, d/c/, the file
\* s, s/x/ under it, the missing m, m/n/ under it, and a path that is not
\* UTF-8
PostCaptures ==
    { <<>>, n_d, n_d \o <<Ch.slash>>, n_d \o <<Ch.slash>> \o n_c \o <<Ch.slash>>,
      n_s, n_s \o <<Ch.slash>> \o n_x \o <<Ch.slash>>,
      n_m, n_m \o <<Ch.slash>> \o n_n \o <<Ch.slash>>,
      <<Ch.pct, Ch.f, Ch.f>> }

\* parts: a text field, one that breaks off, files named a and b, a file
\* that breaks off, a file that is too long
TextPart == Part(NoFilename, <<116>>, "none")
BrokenTextPart == Part(NoFilename, <<116>>, "MultipartBroken")
FileA == Part(n_a, Posted, "none")
FileB == Part(n_b, <<66>>, "none")
BrokenFileA == Part(n_a, Posted, "MultipartBroken")
LongFileA == Part(n_a, [k \in 1..(MaxRequestSize + 1) |-> 85], "none")

\* the bodies posted: the parts, and whether what follows them is garbled
PostBodies ==
    { [fields |-> fields, garbled |-> FALSE] :
         fields \in { <<>>, <<TextPart>>, <<TextPart, TextPart>>, <<FileA>>, <<FileB>>,
                      <<TextPart, FileA>>, <<FileA, FileB>>, <<FileB, FileA>>,
                      <<FileA, TextPart>>, <<TextPart, FileB, FileA>>,
                      <<BrokenTextPart, FileA>>, <<BrokenFileA>>, <<LongFileA>>,
                      <<FileA, BrokenTextPart>> } }
    \cup { [fields |-> fields, garbled |-> TRUE] :
             fields \in { <<>>, <<TextPart>>, <<FileA>> } }

PostRequests ==
    { NewMultipart(FormData, body.fields, body.garbled, <<>>, <<49>>, Timestamp) :
         body \in PostBodies }
    \cup { NewMultipart(content_type, <<FileA>>, FALSE, <<>>, <<49>>, Timestamp) :
             content_type \in {FormDataNoBoundary, TextPlain} }

InitPost ==
    /\ fs = PostTree
    /\ fs0 = fs
    /\ base_dir = <<n_p>>
    /\ state_config \in { PostConfig(enable_upload, prepend_timestamp, prevent_overwrite,
                                      create_directories) :
                              enable_upload \in BOOLEAN, prepend_timestamp \in BOOLEAN,
                              prevent_overwrite \in BOOLEAN, create_directories \in BOOLEAN }
    /\ component = <<>>
    /\ ntokens = 0
    /\ jail_result = Pending
    /\ resp = NoResponse
    /\ uploads = <<>>
    /\ http = NoRequest

\* one POST, run from the extractors to its response
Post ==
    /\ http.stage = "none"
    /\ \E capture \in PostCaptures, request \in PostRequests :
          \E r \in {handle_upload_request(fs, state_config, capture, request)} :
              /\ fs' = r.fs
              /\ resp' = [method |-> "POST", status |-> r.u.status, opened |-> {},
                          headers |-> <<>>, listing |-> <<>>,
                          resolved |-> r.u.jail, body |-> <<>>]
              /\ http' = [stage |-> "posted", method |-> "POST", capture |-> capture,
                          request |-> request, upload |-> r.u]
    /\ UNCHANGED <<fs0, base_dir, component, ntokens, jail_result, state_config, uploads>>

NextPost == Post

SpecPost == InitPost /\ [][NextPost]_vars

\* ------------------------------------------------------- middleware chain

\* the part of AppConfig the middleware reads
HttpConfig(policy, username, password, cors_origins) ==
    [policy |-> policy, username |-> username, password |-> password,
     cors_origins |-> cors_origins]

NoHeaders == [name \in {} |-> ""]

\* HeaderMap::insert
Insert(headers, name, value) ==
    [n \in DOMAIN headers \cup {name} |-> IF n = name THEN value ELSE headers[n]]

\* a response: Response::new(Body::empty()) with a status and headers; a
\* handler's response gets its body in Route
HttpResponse(status, headers) == [status |-> status, headers |-> headers, body |-> ""]

\* a security layer that leaves error responses as they are
add_security_headers_unless_error(response) ==
    IF response.status >= 400 THEN response
    ELSE [response EXCEPT !.headers = Insert(@, "X-Frame-Options", "DENY")]

\* security.rs add_security_headers, after next.run
add_security_headers(response) ==
    [response EXCEPT !.headers =
        Insert(Insert(Insert(Insert(Insert(@,
            "X-Frame-Options", "DENY"),
            "X-Content-Type-Options", "nosniff"),
            "X-XSS-Protection", "1; mode=block"),
            "Referrer-Policy", "strict-origin-when-cross-origin"),
            "Content-Security-Policy",
            "default-src 'self'; style-src 'self' 'unsafe-inline'; img-src 'self' data:; object-src 'none'")]

\* an Origin header whose bytes HeaderValue::to_str refuses
OpaqueOrigin == "https://\\xff.example"

\* cors.rs:26-27, origin_header.and_then(|value| value.to_str().ok())
to_str(value) == IF value = OpaqueOrigin THEN "none" ELSE value

\* an origin test that accepts every origin once CORS is configured
allowed_any_origin(cors_origins, origin) == origin # "none"

\* cors.rs:34-39, is the request's origin allowed
allowed(cors_origins, origin) ==
    origin # "none" /\ ("*" \in cors_origins \/ origin \in cors_origins)

\* cors.rs add_cors_headers
add_cors_headers(headers, origin, requested_headers, preflight) ==
    LET with_origin ==
            IF origin # "none"
            THEN Insert(Insert(headers, "Access-Control-Allow-Origin", origin), "Vary", "Origin")
            ELSE headers
    IN IF preflight
       THEN Insert(Insert(Insert(with_origin,
                "Access-Control-Allow-Methods", "GET, HEAD, POST, OPTIONS"),
                "Access-Control-Allow-Headers",
                IF requested_headers # "none" THEN requested_headers ELSE "*"),
                "Access-Control-Max-Age", "3600")
       ELSE with_origin

\* a policy test that challenges OPTIONS like any other method
determine_auth_requirement_of_any_method(policy, method) ==
    CASE policy = "AuthenticateNone" -> FALSE
      [] policy = "AuthenticateAll" -> TRUE
      [] policy = "AuthenticateUpload" -> method \notin {"GET", "HEAD"}
      [] policy = "AuthenticateDownload" -> method \in {"GET", "HEAD"}

\* auth.rs determine_auth_requirement
determine_auth_requirement(policy, method) ==
    IF method = "OPTIONS" THEN FALSE
    ELSE CASE policy = "AuthenticateNone" -> FALSE
           [] policy = "AuthenticateAll" -> TRUE
           [] policy = "AuthenticateUpload" -> method \notin {"GET", "HEAD"}
           [] policy = "AuthenticateDownload" -> method \in {"GET", "HEAD"}

\* auth.rs unauthorized_response
unauthorized_response ==
    HttpResponse(401, Insert(NoHeaders, "WWW-Authenticate", "Basic realm=\"soop3\""))

\* one whitespace-separated part of an Authorization header: its text, and
\* what BASE64_STANDARD.decode makes of it (decodes FALSE: not base64)
Word(text) == [text |-> text, decodes |-> FALSE, decoded |-> <<>>]
Base64(bytes) == [text |-> <<>>, decodes |-> TRUE, decoded |-> bytes]

BasicScheme == <<66, 97, 115, 105, 99>>
basic == <<98, 97, 115, 105, 99>>
BearerScheme == <<66, 101, 97, 114, 101, 114>>
Colon == 58

\* an Authorization header: whether the request has one, whether
\* HeaderValue::to_str accepts it, and its whitespace-separated parts
Authorization(parts) == [present |-> TRUE, readable |-> TRUE, parts |-> parts]
NoAuthorization == [present |-> FALSE, readable |-> FALSE, parts |-> <<>>]
OpaqueAuthorization == [present |-> TRUE, readable |-> FALSE, parts |-> <<>>]

\* Option::None for a user name or a password
Unset == <<-1>>

ParseErr == [ok |-> FALSE, username |-> <<>>, password |-> <<>>]

\* index of the first b in bytes, 0 when there is none
RECURSIVE Find(_, _, _)
Find(bytes, b, i) ==
    IF i > Len(bytes) THEN 0
    ELSE IF bytes[i] = b THEN i ELSE Find(bytes, b, i + 1)

\* a split at the last ':'
rsplit_once(bytes) ==
    IF Find(bytes, Colon, 1) = 0 THEN ParseErr
    ELSE [ok |-> TRUE,
          username |-> SubSeq(bytes, 1,
                              (CHOOSE i \in 1..Len(bytes) :
                                  bytes[i] = Colon
                                  /\ \A j \in (i + 1)..Len(bytes) : bytes[j] # Colon) - 1),
          password |-> SubSeq(bytes,
                              (CHOOSE i \in 1..Len(bytes) :
                                  bytes[i] = Colon
                                  /\ \A j \in (i + 1)..Len(bytes) : bytes[j] # Colon) + 1,
                              Len(bytes))]

\* str::split_once(':')
split_once(bytes) ==
    IF Find(bytes, Colon, 1) = 0 THEN ParseErr
    ELSE [ok |-> TRUE,
          username |-> SubSeq(bytes, 1, Find(bytes, Colon, 1) - 1),
          password |-> SubSeq(bytes, Find(bytes, Colon, 1) + 1, Len(bytes))]

\* str::eq_ignore_ascii_case
eq_ignore_ascii_case(a, b) ==
    /\ Len(a) = Len(b)
    /\ \A i \in 1..Len(a) : to_ascii_lowercase(a[i]) = to_ascii_lowercase(b[i])

\* auth.rs parse_basic_auth on the parts split_whitespace yields
parse_basic_auth(parts) ==
    IF Len(parts) = 0 THEN ParseErr
    ELSE IF ~eq_ignore_ascii_case(parts[1].text, basic) THEN ParseErr
    ELSE IF Len(parts) # 2 THEN ParseErr
    ELSE IF ~parts[2].decodes THEN ParseErr
    ELSE IF ~Utf8Valid(parts[2].decoded) THEN ParseErr
    ELSE split_once(parts[2].decoded)

\* char::is_whitespace within ASCII: tab, LF, VT, FF, CR, space
Whitespace == {9, 10, 11, 12, 13, 32}

\* str::split_whitespace: the maximal runs of bytes that are not whitespace
RECURSIVE SplitWhitespaceAcc(_, _, _)
SplitWhitespaceAcc(text, word, out) ==
    IF text = <<>> THEN IF word = <<>> THEN out ELSE Append(out, word)
    ELSE IF Head(text) \in Whitespace
         THEN SplitWhitespaceAcc(Tail(text), <<>>,
                                 IF word = <<>> THEN out ELSE Append(out, word))
    ELSE SplitWhitespaceAcc(Tail(text), Append(word, Head(text)), out)

split_whitespace(text) == SplitWhitespaceAcc(text, <<>>, <<>>)

\* the value of a character in the standard base64 alphabet, -1 outside it
Sextet(c) ==
    CASE c \in 65..90 -> c - 65
      [] c \in 97..122 -> c - 71
      [] c \in 48..57 -> c + 4
      [] c = 43 -> 62
      [] c = 47 -> 63
      [] OTHER -> -1

Pad == 61

\* one group of four characters decoded; last: the group ends the text and
\* may be padded, its unused bits zero
DecodeGroup(g, last) ==
    IF last /\ g[3] = Pad /\ g[4] = Pad
    THEN IF Sextet(g[1]) >= 0 /\ Sextet(g[2]) >= 0 /\ Sextet(g[2]) % 16 = 0
         THEN [ok |-> TRUE, bytes |-> <<Sextet(g[1]) * 4 + (Sextet(g[2]) \div 16)>>]
         ELSE [ok |-> FALSE, bytes |-> <<>>]
    ELSE IF last /\ g[4] = Pad
    THEN IF Sextet(g[1]) >= 0 /\ Sextet(g[2]) >= 0 /\ Sextet(g[3]) >= 0
            /\ Sextet(g[3]) % 4 = 0
         THEN [ok |-> TRUE,
               bytes |-> <<Sextet(g[1]) * 4 + (Sextet(g[2]) \div 16),
                           (Sextet(g[2]) % 16) * 16 + (Sextet(g[3]) \div 4)>>]
         ELSE [ok |-> FALSE, bytes |-> <<>>]
    ELSE IF \A i \in 1..4 : Sextet(g[i]) >= 0
    THEN [ok |-> TRUE,
          bytes |-> <<Sextet(g[1]) * 4 + (Sextet(g[2]) \div 16),
                      (Sextet(g[2]) % 16) * 16 + (Sextet(g[3]) \div 4),
                      (Sextet(g[3]) % 4) * 64 + Sextet(g[4])>>]
    ELSE [ok |-> FALSE, bytes |-> <<>>]

\* BASE64_STANDARD.decode: padded, canonical
RECURSIVE Base64Decode(_)
Base64Decode(text) ==
    IF text = <<>> THEN [ok |-> TRUE, bytes |-> <<>>]
    ELSE IF Len(text) < 4 THEN [ok |-> FALSE, bytes |-> <<>>]
    ELSE LET group == DecodeGroup(SubSeq(text, 1, 4), Len(text) = 4)
             rest == Base64Decode(SubSeq(text, 5, Len(text)))
         IN IF group.ok /\ rest.ok THEN [ok |-> TRUE, bytes |-> group.bytes \o rest.bytes]
            ELSE [ok |-> FALSE, bytes |-> <<>>]

\* a token of the header as parse_basic_auth sees it
Token(text) ==
    [text |-> text, decodes |-> Base64Decode(text).ok, decoded |-> Base64Decode(text).bytes]

\* auth.rs parse_basic_auth on the text of the header
parse_basic_auth_str(auth_header) ==
    parse_basic_auth([i \in 1..Len(split_whitespace(auth_header)) |->
                         Token(split_whitespace(auth_header)[i])])

\* u8 ^ u8 and u8 | u8
RECURSIVE BitXor(_, _)
BitXor(x, y) ==
    IF x = 0 /\ y = 0 THEN 0
    ELSE (((x % 2) + (y % 2)) % 2) + 2 * BitXor(x \div 2, y \div 2)

RECURSIVE BitOr(_, _)
BitOr(x, y) ==
    IF x = 0 /\ y = 0 THEN 0
    ELSE (IF (x % 2) = 1 \/ (y % 2) = 1 THEN 1 ELSE 0) + 2 * BitOr(x \div 2, y \div 2)

\* auth.rs:164-167, the loop of constant_time_eq over a.iter().zip(b.iter());
\* acc holds result and the number of byte comparisons made
RECURSIVE FoldXor(_, _, _, _)
FoldXor(a, b, i, acc) ==
    IF i > Len(a) \/ i > Len(b) THEN acc
    ELSE FoldXor(a, b, i + 1,
                 [result |-> BitOr(acc.result, BitXor(a[i], b[i])),
                  comparisons |-> acc.comparisons + 1])

\* a comparison without the length test: zip stops at the shorter input
constant_time_eq_zip(a, b) ==
    [eq |-> FoldXor(a, b, 1, [result |-> 0, comparisons |-> 0]).result = 0,
     comparisons |-> FoldXor(a, b, 1, [result |-> 0, comparisons |-> 0]).comparisons]

\* auth.rs constant_time_eq, with the number of byte comparisons it made
constant_time_eq(a, b) ==
    IF Len(a) # Len(b) THEN [eq |-> FALSE, comparisons |-> 0]
    ELSE [eq |-> FoldXor(a, b, 1, [result |-> 0, comparisons |-> 0]).result = 0,
          comparisons |-> FoldXor(a, b, 1, [result |-> 0, comparisons |-> 0]).comparisons]

\* a check that looks at the user name alone
validate_credentials_username_only(security_config, credentials) ==
    IF security_config.username = Unset THEN [eq |-> FALSE, comparisons |-> 0]
    ELSE constant_time_eq(credentials.username, security_config.username)

\* auth.rs validate_credentials: the second comparison runs only when the
\* first returned true (&&)
validate_credentials(security_config, credentials) ==
    IF security_config.username = Unset THEN [eq |-> FALSE, comparisons |-> 0]
    ELSE IF security_config.password = Unset THEN [eq |-> FALSE, comparisons |-> 0]
    ELSE IF ~constant_time_eq(credentials.username, security_config.username).eq
         THEN [eq |-> FALSE,
               comparisons |->
                   constant_time_eq(credentials.username, security_config.username).comparisons]
    ELSE [eq |-> constant_time_eq(credentials.password, security_config.password).eq,
          comparisons |->
              constant_time_eq(credentials.username, security_config.username).comparisons
              + constant_time_eq(credentials.password, security_config.password).comparisons]

\* what the file handlers answer with
FileStatuses == {200, 206, 301, 400, 404, 416, 500}

MaxCredLen == 2

\* the byte strings of length 0..n over an alphabet
RECURSIVE Strings(_, _)
Strings(alphabet, n) ==
    IF n = 0 THEN {<<>>}
    ELSE Strings(alphabet, n - 1)
         \cup {Append(x, b) : x \in Strings(alphabet, n - 1), b \in alphabet}

\* the configured credentials: none, a user name without a password, a pair,
\* a pair whose password holds a colon
Credentials ==
    { <<Unset, Unset>>, <<<<117, 118>>, Unset>>, <<<<117, 118>>, <<112, 113>>>>,
      <<<<117>>, <<112, Colon, 113>>>> }

HttpConfigs ==
    { HttpConfig(policy, credentials[1], credentials[2], cors_origins) :
        policy \in {"AuthenticateNone", "AuthenticateAll", "AuthenticateUpload",
                    "AuthenticateDownload"},
        credentials \in Credentials,
        cors_origins \in {{}, {"https://a.example"}, {"*"}} }

\* a request: its method and its Origin and Access-Control-Request-Headers
\* headers
HttpRequests ==
    { [method |-> method, origin |-> origin, requested_headers |-> requested_headers] :
        method \in {"GET", "HEAD", "POST", "OPTIONS", "DELETE"},
        origin \in {"none", "https://a.example", "https://b.example", OpaqueOrigin},
        requested_headers \in {"none", "x-token"} }

\* the Authorization headers a request may carry: none, unreadable, empty,
\* another scheme, no credentials, a third part, not base64, not UTF-8, no
\* colon, a second colon, and every user:password with a user name over
\* {u, v} and a password over {p, q} of up to MaxCredLen bytes, under
\* "Basic" and "basic"
AuthHeaders ==
    { NoAuthorization, OpaqueAuthorization, Authorization(<<>>),
      Authorization(<<Word(BearerScheme), Base64(<<117, 118, Colon, 112, 113>>)>>),
      Authorization(<<Word(BasicScheme)>>),
      Authorization(<<Word(BasicScheme), Base64(<<117, 118, Colon, 112, 113>>), Word(<<120>>)>>),
      Authorization(<<Word(BasicScheme), Word(<<33, 33>>)>>),
      Authorization(<<Word(BasicScheme), Base64(<<117, 118, Colon, 255>>)>>),
      Authorization(<<Word(BasicScheme), Base64(<<117, 118, 112, 113>>)>>),
      Authorization(<<Word(BasicScheme), Base64(<<117, Colon, 112, Colon, 113>>)>>),
      Authorization(<<Word(BasicScheme), Base64(<<117, 118, Colon, 112, 113, Colon>>)>>) }
    \cup { Authorization(<<Word(scheme), Base64(username \o <<Colon>> \o password)>>) :
             scheme \in {BasicScheme, basic},
             username \in Strings({117, 118}, MaxCredLen),
             password \in Strings({112, 113}, MaxCredLen) }

\* the upload settings a POST is routed under: uploads on or off, existing
\* files kept, missing directories not made
RoutedUploadConfigs == {PostConfig(enable_upload, FALSE, TRUE, FALSE) : enable_upload \in BOOLEAN}

\* the request paths POSTs are routed with: the root, d where a is taken,
\* the missing m/ and s/x/ under a file
RoutedCaptures ==
    { <<>>, n_d, n_m \o <<Ch.slash>>, n_s \o <<Ch.slash>> \o n_x \o <<Ch.slash>> }

\* the bodies of routed POSTs: a file, no part, a file that is too long
RoutedPosts ==
    { NewMultipart(FormData, fields, FALSE, <<>>, <<49>>, Timestamp) :
         fields \in {<<FileA>>, <<>>, <<LongFileA>>} }

InitHttp ==
    /\ state_config \in HttpConfigs
    /\ http = NoRequest
    /\ fs = PostTree
    /\ fs0 = fs
    /\ uploads = <<>>
    /\ base_dir = <<>>
    /\ component = <<>>
    /\ ntokens = 0
    /\ jail_result = Pending
    /\ resp = NoResponse

HttpMoves(next) ==
    /\ http' = next
    /\ UNCHANGED <<fs, fs0, base_dir, component, ntokens, jail_result, resp,
                   state_config, uploads>>

\* a request reaches the outermost application layer: add_security_headers
\* hands it on with next.run
Receive ==
    /\ http.stage = "none"
    /\ \E request \in HttpRequests :
          HttpMoves([stage |-> "cors", req |-> request,
                     response |-> HttpResponse(0, NoHeaders),
                     needs_auth |-> FALSE, authorization |-> NoAuthorization,
                     credentials |-> ParseErr, comparisons |-> 0, invoked |-> FALSE])

\* cors.rs handle_cors, up to next.run: a preflight is answered here
HandleCors ==
    /\ http.stage = "cors"
    /\ IF state_config.cors_origins # {} /\ http.req.method = "OPTIONS"
       THEN HttpMoves([http EXCEPT
                !.stage = "security_response",
                !.response =
                    IF allowed(state_config.cors_origins, to_str(http.req.origin))
                    THEN HttpResponse(200, add_cors_headers(NoHeaders, http.req.origin,
                                               http.req.requested_headers, TRUE))
                    ELSE HttpResponse(403, NoHeaders)])
       ELSE HttpMoves([http EXCEPT !.stage = "auth"])

\* auth.rs authenticate_if_required, up to next.run; the Authorization
\* header is looked at only when the policy asks for authentication and both
\* credentials are configured
Authenticate ==
    /\ http.stage = "auth"
    /\ IF ~determine_auth_requirement(state_config.policy, http.req.method)
       THEN HttpMoves([http EXCEPT !.stage = "route"])
       ELSE IF ~(state_config.username # Unset /\ state_config.password # Unset)
            THEN HttpMoves([http EXCEPT !.stage = "cors_response", !.needs_auth = TRUE,
                                        !.response = HttpResponse(500, NoHeaders)])
       ELSE \E header \in AuthHeaders :
            \E parsed \in {IF header.present /\ header.readable
                           THEN parse_basic_auth(header.parts) ELSE ParseErr} :
            \E checked \in {IF parsed.ok THEN validate_credentials(state_config, parsed)
                            ELSE [eq |-> FALSE, comparisons |-> 0]} :
               HttpMoves([http EXCEPT
                   !.needs_auth = TRUE,
                   !.authorization = header,
                   !.credentials = parsed,
                   !.comparisons = checked.comparisons,
                   !.stage = IF checked.eq THEN "route" ELSE "cors_response",
                   !.response = IF checked.eq THEN @ ELSE unauthorized_response])

\* app.rs:59-68, the method routers: GET and HEAD to the file handlers, POST
\* to the upload handlers, which run on the filesystem; anything else 405
Route ==
    /\ http.stage = "route"
    /\ IF http.req.method = "POST"
       THEN \E config \in RoutedUploadConfigs, capture \in RoutedCaptures,
               upload \in RoutedPosts :
            \E r \in {handle_upload_request(fs, config, capture, upload)} :
               /\ fs' = r.fs
               /\ http' = [http EXCEPT !.stage = "cors_response",
                                       !.invoked = TRUE,
                                       !.response = HttpResponse(r.u.status, NoHeaders)]
               /\ UNCHANGED <<fs0, base_dir, component, ntokens, jail_result, resp,
                              state_config, uploads>>
       ELSE IF http.req.method \in {"GET", "HEAD"}
       THEN \E outcome \in FileStatuses :
               HttpMoves([http EXCEPT
                   !.stage = "cors_response",
                   !.invoked = TRUE,
                   !.response =
                       [HttpResponse(outcome, NoHeaders) EXCEPT
                           !.body = IF http.req.method = "GET" /\ outcome \in {200, 206}
                                    THEN "content" ELSE ""]])
       ELSE HttpMoves([http EXCEPT
               !.stage = "cors_response",
               !.response = HttpResponse(405, Insert(NoHeaders, "Allow", "GET,HEAD,POST"))])

\* cors.rs:59-71, handle_cors after next.run
CorsResponse ==
    /\ http.stage = "cors_response"
    /\ HttpMoves([http EXCEPT
            !.stage = "security_response",
            !.response.headers =
                IF state_config.cors_origins # {}
                     /\ allowed(state_config.cors_origins, to_str(http.req.origin))
                THEN add_cors_headers(@, http.req.origin, http.req.requested_headers, FALSE)
                ELSE @])

\* security.rs add_security_headers after next.run; the response leaves
SecurityResponse ==
    /\ http.stage = "security_response"
    /\ HttpMoves([http EXCEPT !.stage = "sent",
                              !.response = add_security_headers(@)])

NextHttp ==
    Receive \/ HandleCors \/ Authenticate \/ Route \/ CorsResponse \/ SecurityResponse

SpecHttp == InitHttp /\ [][NextHttp]_vars

\* ------------------------------------------------------- listings, filtered

Star == 42
QuestionMark == 63
Caret == 94
Dollar == 36
Newline == 10

\* the characters pattern_to_regex escapes
RegexSpecial == {92, Caret, Dollar, 46, 43, 40, 41, 91, 93, 123, 125, 124}

\* ignore.rs pattern_to_regex, the loop over the pattern's characters
RECURSIVE EscapePattern(_)
EscapePattern(pattern) ==
    IF pattern = <<>> THEN <<>>
    ELSE (IF Head(pattern) = Star THEN <<46, Star>>
          ELSE IF Head(pattern) = QuestionMark THEN <<46>>
          ELSE IF Head(pattern) \in RegexSpecial THEN <<92, Head(pattern)>>
          ELSE <<Head(pattern)>>)
         \o EscapePattern(Tail(pattern))

\* the text gets an anchor where it does not already begin or end with one
AnchorLoosely(regex_pattern) ==
    (IF regex_pattern # <<>> /\ Head(regex_pattern) = Caret THEN <<>> ELSE <<Caret>>)
    \o regex_pattern
    \o (IF regex_pattern # <<>> /\ regex_pattern[Len(regex_pattern)] = Dollar
        THEN <<>> ELSE <<Dollar>>)

\* ignore.rs pattern_to_regex: the text handed to Regex::new
pattern_to_regex(pattern) == AnchorLoosely(EscapePattern(pattern))

\* Regex::new on the texts pattern_to_regex writes: a sequence of items, each
\* an anchor, an escaped or plain literal, a dot, or a dot with a star
RECURSIVE RegexItems(_)
RegexItems(text) ==
    IF text = <<>> THEN <<>>
    ELSE IF Head(text) = 92 /\ Len(text) >= 2
    THEN <<[kind |-> "literal", ch |-> text[2]]>> \o RegexItems(SubSeq(text, 3, Len(text)))
    ELSE IF Head(text) = 46 /\ Len(text) >= 2 /\ text[2] = Star
    THEN <<[kind |-> "any_run", ch |-> 0]>> \o RegexItems(SubSeq(text, 3, Len(text)))
    ELSE IF Head(text) = 46 THEN <<[kind |-> "any", ch |-> 0]>> \o RegexItems(Tail(text))
    ELSE IF Head(text) = Caret THEN <<[kind |-> "start", ch |-> 0]>> \o RegexItems(Tail(text))
    ELSE IF Head(text) = Dollar THEN <<[kind |-> "end", ch |-> 0]>> \o RegexItems(Tail(text))
    ELSE <<[kind |-> "literal", ch |-> Head(text)]>> \o RegexItems(Tail(text))

\* the items match text from offset at on (at counts the characters before);
\* a dot matches every character but the newline, the anchors match at the
\* ends of the whole text
RECURSIVE MatchesAt(_, _, _)
MatchesAt(items, text, at) ==
    IF items = <<>> THEN TRUE
    ELSE IF Head(items).kind = "start" THEN at = 0 /\ MatchesAt(Tail(items), text, at)
    ELSE IF Head(items).kind = "end" THEN at = Len(text) /\ MatchesAt(Tail(items), text, at)
    ELSE IF Head(items).kind = "any_run"
    THEN \/ MatchesAt(Tail(items), text, at)
         \/ /\ at < Len(text)
            /\ text[at + 1] # Newline
            /\ MatchesAt(items, text, at + 1)
    ELSE /\ at < Len(text)
         /\ IF Head(items).kind = "any" THEN text[at + 1] # Newline
            ELSE text[at + 1] = Head(items).ch
         /\ MatchesAt(Tail(items), text, at + 1)

\* Regex::is_match: the regex matches somewhere in the text
is_match(regex, text) == \E at \in 0..Len(text) : MatchesAt(RegexItems(regex), text, at)

\* ignore.rs is_path_ignored
is_path_ignored(rel_path, patterns) ==
    \E i \in 1..Len(patterns) : is_match(patterns[i], rel_path)

\* ignore.rs read_ignore_patterns: a matcher for every line of the file
read_ignore_patterns(lines) == [i \in 1..Len(lines) |-> pattern_to_regex(lines[i])]

\* ignore.rs filter_with_ignore_patterns with an ignore file that is there:
\* the entries of the directory dir (relative to the base directory) that
\* no matcher accepts
filter_with_ignore_patterns(entries, dir, lines) ==
    {name \in entries :
        ~is_path_ignored(IF dir = <<>> THEN name ELSE dir \o <<Ch.slash>> \o name,
                         read_ignore_patterns(lines))}

MaxPatternLen == 3

\* the characters of the patterns: a letter, the wildcards, and characters
\* a regex reads specially
PatternChars == {97, Star, QuestionMark, Dollar, 46, Caret, 92}

IgnorePatterns ==
    UNION {[1..n -> PatternChars] : n \in 1..MaxPatternLen}

\* the names in the listed directory
ListedNames ==
    {<<97>>, <<98>>, <<97, 97>>, <<97, 98>>, <<97, Dollar>>, <<97, Dollar, 98>>, <<Dollar>>,
     <<Dollar, 98>>, <<97, 46, 97>>, <<97, 98, 97>>, <<46, 97>>, <<Caret, 97>>, <<92, 97>>,
     <<97, Newline>>, <<97, Star>>, <<QuestionMark>>, <<97, 97, 97>>, <<97, 97, 97, 97>>}

\* the listed directory, relative to the base directory
ListedDirs == {<<>>, <<97>>}

InitIgnore ==
    /\ fs = [p \in {} |-> Dir]
    /\ fs0 = fs
    /\ base_dir = <<>>
    /\ component = <<>>
    /\ ntokens = 0
    /\ jail_result = [ok |-> FALSE, path |-> <<>>]
    /\ resp = [status |-> 0]
    /\ state_config = [ignore_file |-> TRUE]
    /\ uploads = <<>>
    /\ \E pattern \in IgnorePatterns, dir \in ListedDirs, more \in {0, 1} :
          http = [stage |-> "listing", dir |-> dir,
                  lines |-> IF more = 1 THEN <<<<98>>, pattern>> ELSE <<pattern>>,
                  pattern |-> pattern, entries |-> ListedNames]

\* the listing's entries filtered by the ignore file
FilterListing ==
    /\ http.stage = "listing"
    /\ \E kept \in {filter_with_ignore_patterns(http.entries, http.dir, http.lines)} :
          http' = [http EXCEPT !.stage = "filtered", !.entries = kept]
    /\ UNCHANGED <<fs, fs0, base_dir, component, ntokens, jail_result, resp, state_config,
                   uploads>>

NextIgnore == FilterListing

SpecIgnore == InitIgnore /\ [][NextIgnore]_vars

\* ------------------------------------------- the Authorization header, parsed

\* the character of a value in the standard base64 alphabet
SextetChar(n) ==
    IF n < 26 THEN n + 65
    ELSE IF n < 52 THEN n + 71
    ELSE IF n < 62 THEN n - 4
    ELSE IF n = 62 THEN 43
    ELSE 47

\* the padded standard base64 text of bytes, as a client produces it
RECURSIVE Base64Encode(_)
Base64Encode(bytes) ==
    IF bytes = <<>> THEN <<>>
    ELSE IF Len(bytes) = 1
    THEN <<SextetChar(bytes[1] \div 4), SextetChar((bytes[1] % 4) * 16), Pad, Pad>>
    ELSE IF Len(bytes) = 2
    THEN <<SextetChar(bytes[1] \div 4),
           SextetChar((bytes[1] % 4) * 16 + (bytes[2] \div 16)),
           SextetChar((bytes[2] % 16) * 4), Pad>>
    ELSE <<SextetChar(bytes[1] \div 4),
           SextetChar((bytes[1] % 4) * 16 + (bytes[2] \div 16)),
           SextetChar((bytes[2] % 16) * 4 + (bytes[3] \div 64)),
           SextetChar(bytes[3] % 64)>>
         \o Base64Encode(SubSeq(bytes, 4, Len(bytes)))

\* the scheme tokens a client sends
Schemes ==
    {BasicScheme, basic, <<66, 65, 83, 73, 67>>, <<98, 65, 115, 73, 99>>,
     BearerScheme, <<66, 97, 115, 105>>, <<66, 97, 115, 105, 99, 115>>}

\* runs of whitespace between and around the tokens
Gaps == {<<>>, <<32>>, <<9>>, <<32, 32, 32>>, <<32, 9>>}

\* the texts a client encodes: user:pass, empty sides, a second colon, no
\* colon, nothing, and bytes that are not UTF-8
UserPass ==
    {<<117, 58, 112>>, <<117, 118, 58, 112, 113>>, <<58>>, <<117, 58>>, <<58, 112>>,
     <<117, 58, 112, 58, 113>>, <<58, 58>>, <<117, 112>>, <<>>,
     <<117, 58, 255>>, <<195, 169, 58, 112>>}

\* tokens that are not the base64 of anything: a character outside the
\* alphabet, padding missing, padding alone, bits set under the padding,
\* padding inside
Malformed ==
    {<<33, 33, 33, 33>>, <<100, 84, 112>>, <<61>>, <<100, 82, 61, 61>>,
     <<100, 84, 112, 61>> \o <<100, 84, 112, 119>>, <<100, 84, 112, 120, 61>>}

SecondTokens == {Base64Encode(text) : text \in UserPass} \cup Malformed

\* what follows the second token
Trailers == {<<>>, <<32>>, <<32, 120>>, <<9>> \o Base64Encode(<<117, 58, 112>>)}

\* the header values: a scheme, a gap, a token and a trailer, after optional
\* leading whitespace
BasicHeaders ==
    {[lead |-> lead, scheme |-> scheme, gap |-> gap, token |-> token, trailer |-> trailer,
      value |-> lead \o scheme \o gap \o token \o trailer] :
        lead \in {<<>>, <<32>>}, scheme \in Schemes, gap \in Gaps,
        token \in SecondTokens, trailer \in Trailers}

InitBasic ==
    /\ fs = [p \in {} |-> Dir]
    /\ fs0 = fs
    /\ base_dir = <<>>
    /\ component = <<>>
    /\ ntokens = 0
    /\ jail_result = [ok |-> FALSE, path |-> <<>>]
    /\ resp = [status |-> 0]
    /\ state_config = HttpConfig("all", <<117>>, <<112>>, {})
    /\ uploads = <<>>
    /\ \E header \in BasicHeaders :
          http = [stage |-> "header", header |-> header, credentials |-> ParseErr]

\* auth.rs auth_middleware: the header's text handed to parse_basic_auth
ParseBasicAuth ==
    /\ http.stage = "header"
    /\ \E r \in {parse_basic_auth_str(http.header.value)} :
          http' = [http EXCEPT !.stage = "parsed", !.credentials = r]
    /\ UNCHANGED <<fs, fs0, base_dir, component, ntokens, jail_result, resp, state_config,
                   uploads>>

NextBasic == ParseBasicAuth

SpecBasic == InitBasic /\ [][NextBasic]_vars

\* --------------------------------------------------------------- claims

\* C1: whenever join_path_jailed returns Ok(p), p descends from the canonical
\* base, and every prefix of p that exists on disk resolves (symlinks
\* followed) to a descendant of the canonical base.
JailContainment ==
    jail_result.ok =>
        LET cb == canonicalize(fs, base_dir)
            p == jail_result.path
        IN /\ starts_with(p, cb)
           /\ \A k \in Len(cb)..Len(p) :
                 exists(fs, SubSeq(p, 1, k)) =>
                     starts_with(canonicalize(fs, SubSeq(p, 1, k)), cb)

\* C1's case: through the base link and a link back to the base, the path
\* "l/l" was resolved and accepted
JailContainmentWitness ==
    /\ jail_result.ok
    /\ base_dir = <<n_b>>
    /\ component = <<108, 47, 108>>
    /\ jail_result.path = <<n_j>>

\* the raw path holds %2f or %2F
HasEncodedSlash(raw) ==
    \E i \in 1..(Len(raw) - 2) :
        raw[i] = 37 /\ raw[i + 1] = 50 /\ raw[i + 2] \in {70, 102}

\* the raw path holds a backslash, %5c or %5C
HasBackslash(raw) ==
    \/ \E i \in 1..Len(raw) : raw[i] = 92
    \/ \E i \in 1..(Len(raw) - 2) :
          raw[i] = 37 /\ raw[i + 1] = 53 /\ raw[i + 2] \in {67, 99}

\* the decoded path is not UTF-8 or holds a NUL
UndecodableOrNul(raw) ==
    LET decoded == percent_decode_str(raw) IN
    ~Utf8Valid(decoded) \/ Contains(decoded, Ch.nul)

\* C2 (as amended): a raw path with an encoded slash fails EncodedSlash; one
\* with a backslash (literal or encoded) and no encoded slash fails Backslash,
\* or InvalidEncoding when its decoded text is not UTF-8 or holds a NUL; in
\* each case before the filesystem is looked at.
EncodedSlashAndBackslashRejected ==
    jail_result # Pending =>
        /\ HasEncodedSlash(component) =>
              /\ ~jail_result.ok
              /\ jail_result.err = "EncodedSlash"
              /\ ~jail_result.fs_examined
        /\ (HasBackslash(component) /\ ~HasEncodedSlash(component)) =>
              /\ ~jail_result.ok
              /\ jail_result.err = IF UndecodableOrNul(component)
                                   THEN "InvalidEncoding" ELSE "Backslash"
              /\ ~jail_result.fs_examined

\* C2's case: "s%5c" was rejected as Backslash although the base directory
\* does not exist
EncodedBackslashRejectedWitness ==
    /\ jail_result.err = "Backslash"
    /\ ~jail_result.fs_examined
    /\ component = <<115, 37, 53, 99>>
    /\ base_dir = <<n_m>>

\* C2 as written: every raw path with an encoded slash or a backslash fails
\* with EncodedSlash or Backslash, the one whose character it holds
EncodedSlashOrBackslashNamed ==
    (jail_result # Pending /\ (HasEncodedSlash(component) \/ HasBackslash(component))) =>
        /\ ~jail_result.ok
        /\ ~jail_result.fs_examined
        /\ \/ jail_result.err = "EncodedSlash" /\ HasEncodedSlash(component)
           \/ jail_result.err = "Backslash" /\ HasBackslash(component)

PathTraversalErrors ==
    {"InvalidBasePath", "InvalidTargetPath", "EncodedSlash", "OutsideJail",
     "InvalidEncoding", "WindowsPrefix", "Backslash"}

\* a handler handed its path to the jail and the jail rejected it
ResolutionFailed == resp.method # "none" /\ resp.resolved.err \in PathTraversalErrors

\* all that differs from the filesystem at startup is the upload directory,
\* made with its missing ancestors
OnlyUploadRootMade ==
    \A p \in DOMAIN fs \cup DOMAIN fs0 :
        \/ p \in DOMAIN fs /\ p \in DOMAIN fs0 /\ fs[p] = fs0[p]
        \/ /\ p \notin DOMAIN fs0
           /\ p \in DOMAIN fs
           /\ fs[p].kind = "dir"
           /\ resp.method = "POST"
           /\ starts_with(upload_dir(state_config), p)

HasBytes(f, path, bytes) ==
    /\ path \in DOMAIN f
    /\ f[path].kind = "file"
    /\ f[path].data = bytes

Done(i) == uploads[i].pc = "done"

\* C4: with prevent_overwrite=true, an upload that finds something at its
\* target_path fails with Conflict and leaves the filesystem as it is; a
\* Conflict is answered 409; no file that was there at startup ever changes;
\* and the target of an upload answered 204 holds that upload's bytes from
\* then on, whatever uploads of the same name follow.
FirstUploadKept ==
    state_config.prevent_overwrite =>
        /\ \A p \in DOMAIN fs0 : fs0[p].kind = "file" => (p \in DOMAIN fs /\ fs[p] = fs0[p])
        /\ \A i \in Uploads :
              /\ (Done(i) /\ uploads[i].result = "Conflict") => uploads[i].status = 409
              /\ (Done(i) /\ uploads[i].status = 204) =>
                    HasBytes(fs, uploads[i].target, uploads[i].body)

ExistingTargetConflicts ==
    \A i \in Uploads :
        (/\ state_config.prevent_overwrite
         /\ At(i, "open")
         /\ uploads'[i].pc \notin {"open", "cancelled"}
         /\ uploads[i].target \in DOMAIN fs)
        => (uploads'[i].result = "Conflict" /\ fs' = fs)

PreventOverwriteKeepsFirst == [][ExistingTargetConflicts /\ FirstUploadKept']_vars

\* C4's case: "a" was uploaded twice; the first got 204, the second 409, and
\* the file holds the first upload's bytes
PreventOverwriteWitness ==
    /\ state_config.prevent_overwrite
    /\ Done(1) /\ uploads[1].status = 204
    /\ Done(2) /\ uploads[2].status = 409
    /\ uploads[1].target = uploads[2].target
    /\ HasBytes(fs, uploads[1].target, uploads[1].body)
    /\ uploads[2].body # uploads[1].body

\* a file upload i created is still linked somewhere
OwnFileLeft(i) == \E p \in DOMAIN fs : fs[p].kind = "file" /\ fs[p].ino = i

IsTmpSibling(name, final) ==
    /\ Len(name) > Len(final) + 5
    /\ SubSeq(name, 1, Len(final) + 1) = final \o <<Ch.dot>>
    /\ SubSeq(name, Len(name) - 3, Len(name)) = <<Ch.dot, 116, 109, 112>>

CancelledLeavesNothing ==
    \A i \in Uploads : At(i, "cancelled") => ~OwnFileLeft(i)

\* the status upload i gets when it is the only request the server ever sees
AloneStatus(i) ==
    RunUpload([fs |-> fs0,
               u |-> NewUpload(uploads[i].kind, uploads[i].upload_path, uploads[i].filename,
                               uploads[i].body, uploads[i].stream_err, uploads[i].nanos,
                               uploads[i].timestamp)],
              state_config, i).u.status

\* C7 as written: two uploads of different filenames into the same directory
\* each end as they would alone, and a file stored with 204 holds the bytes
\* of the upload that named it
DistinctNamesIndependent ==
    (/\ Done(1) /\ Done(2)
     /\ uploads[1].upload_path = uploads[2].upload_path
     /\ uploads[1].filename # uploads[2].filename)
    => \A i \in Uploads :
          /\ uploads[i].status = AloneStatus(i)
          /\ uploads[i].status = 204 =>
                HasBytes(fs, uploads[i].target, uploads[i].body)

\* no other upload has the target or the temporary of upload i as its own
\* target or temporary
Undisturbed(i) ==
    \A j \in Uploads \ {i} :
        {uploads[j].target, uploads[j].temp} \cap {uploads[i].target, uploads[i].temp}
            \subseteq {None}

\* upload i is answered 204 in this step
Answers204(i) ==
    At(i, "respond") /\ uploads'[i].pc = "done" /\ uploads'[i].status = 204

Changed(p) ==
    \/ p \in DOMAIN fs /\ p \notin DOMAIN fs0
    \/ p \in DOMAIN fs0 /\ p \notin DOMAIN fs
    \/ p \in DOMAIN fs /\ p \in DOMAIN fs0 /\ fs[p] # fs0[p]

\* the canonical upload root (the configured path while it does not exist)
UploadRoot ==
    IF exists(fs, upload_dir(state_config))
    THEN canonicalize(fs, upload_dir(state_config)) ELSE upload_dir(state_config)

SecurityHeadersOnEveryResponse ==
    http.stage = "sent" =>
        /\ {"X-Frame-Options", "X-Content-Type-Options", "X-XSS-Protection",
            "Referrer-Policy", "Content-Security-Policy"} \subseteq DOMAIN http.response.headers
        /\ http.response.headers["X-Frame-Options"] = "DENY"
        /\ http.response.headers["X-Content-Type-Options"] = "nosniff"
        /\ http.response.headers["X-XSS-Protection"] = "1; mode=block"
        /\ http.response.headers["Referrer-Policy"] = "strict-origin-when-cross-origin"
        /\ http.response.headers["Content-Security-Policy"] =
              "default-src 'self'; style-src 'self' 'unsafe-inline'; img-src 'self' data:; object-src 'none'"

\* C10's case: the 401 the auth layer made left with the security headers
SecurityHeadersWitness ==
    /\ http.stage = "sent"
    /\ http.response.status = 401
    /\ "WWW-Authenticate" \in DOMAIN http.response.headers
    /\ "Content-Security-Policy" \in DOMAIN http.response.headers

\* the CORS layer hands a response on
CorsHandsOn == http.stage = "cors_response" /\ http'.stage = "security_response"

\* the response carries Access-Control-Allow-Origin echoing the request's
\* Origin and Vary: Origin
EchoesOrigin(response, origin) ==
    /\ {"Access-Control-Allow-Origin", "Vary"} \subseteq DOMAIN response.headers
    /\ response.headers["Access-Control-Allow-Origin"] = origin
    /\ response.headers["Vary"] = "Origin"

\* the response carries neither of the two
NoCorsHeaders(response) ==
    {"Access-Control-Allow-Origin", "Vary"} \cap DOMAIN response.headers = {}

\* status, body and every other header are what downstream made them
OtherwiseUnchanged(before, after) ==
    /\ after.status = before.status
    /\ after.body = before.body
    /\ \A n \in DOMAIN before.headers \ {"Access-Control-Allow-Origin", "Vary"} :
          n \in DOMAIN after.headers /\ after.headers[n] = before.headers[n]
    /\ DOMAIN after.headers \subseteq
          DOMAIN before.headers \cup {"Access-Control-Allow-Origin", "Vary"}

\* C11: for a non-OPTIONS request the CORS layer adds
\* Access-Control-Allow-Origin (the request's Origin) and Vary: Origin exactly
\* when cors_origins is non-empty, the request has a readable Origin header
\* and that origin is configured or * is configured; whatever downstream
\* answered, its status, body and other headers pass unchanged.
CorsHeadersIffAllowed ==
    [][CorsHandsOn =>
          /\ IF /\ state_config.cors_origins # {}
                /\ to_str(http.req.origin) # "none"
                /\ \/ http.req.origin \in state_config.cors_origins
                   \/ "*" \in state_config.cors_origins
             THEN EchoesOrigin(http'.response, http.req.origin)
             ELSE NoCorsHeaders(http'.response)
          /\ OtherwiseUnchanged(http.response, http'.response)]_vars

\* C11's case: a 401 from the auth layer leaves with the allowed origin echoed
CorsHeadersWitness ==
    /\ http.stage = "sent"
    /\ http.response.status = 401
    /\ http.req.method = "POST"
    /\ "*" \notin state_config.cors_origins
    /\ EchoesOrigin(http.response, "https://a.example")

\* C11 as written: the headers are there exactly when cors_origins is
\* non-empty and the request's Origin is configured or * is configured
CorsHeadersIffConfigured ==
    [][CorsHandsOn =>
          (EchoesOrigin(http'.response, http.req.origin) <=>
              /\ state_config.cors_origins # {}
              /\ \/ http.req.origin \in state_config.cors_origins
                 \/ "*" \in state_config.cors_origins)]_vars

\* the policy table: which requests must authenticate
MustAuthenticate(policy, method) ==
    /\ method # "OPTIONS"
    /\ \/ policy = "AuthenticateAll"
       \/ policy = "AuthenticateUpload" /\ method \notin {"GET", "HEAD"}
       \/ policy = "AuthenticateDownload" /\ method \in {"GET", "HEAD"}

\* the auth layer decides about a request
AuthDecides == http.stage = "auth" /\ http'.stage # "auth"

\* the request went on to the routes as it came, with no look at its
\* Authorization header
PassedUnchallenged ==
    /\ http'.stage = "route"
    /\ ~http'.needs_auth
    /\ http'.response = http.response
    /\ http'.authorization = NoAuthorization

\* C12: whether a request must authenticate depends on policy and method
\* only: never under none, always under all, the methods other than GET/HEAD
\* under upload, GET/HEAD under download, and never OPTIONS; a preflight
\* from an allowed origin is answered 200 with Access-Control-Allow-Origin and
\* no challenge.
AuthRequirementByPolicyAndMethod ==
    [][/\ AuthDecides =>
            IF MustAuthenticate(state_config.policy, http.req.method)
            THEN /\ http'.needs_auth
                 /\ http'.stage = "route" => http'.credentials.ok
            ELSE PassedUnchallenged
       /\ (http'.stage = "sent" /\ http.req.method = "OPTIONS") =>
            /\ http'.response.status # 401
            /\ "WWW-Authenticate" \notin DOMAIN http'.response.headers
            /\ (state_config.cors_origins # {}
                  /\ allowed(state_config.cors_origins, to_str(http.req.origin))) =>
                  /\ http'.response.status = 200
                  /\ EchoesOrigin(http'.response, http.req.origin)]_vars

\* C12's case: under policy all a preflight from an allowed origin left with
\* 200 and the origin echoed
PreflightUnchallengedWitness ==
    /\ http.stage = "sent"
    /\ http.req.method = "OPTIONS"
    /\ state_config.policy = "AuthenticateAll"
    /\ state_config.username # Unset /\ state_config.password # Unset
    /\ http.response.status = 200
    /\ EchoesOrigin(http.response, "https://a.example")

\* the header is a Basic header whose credentials decode to the configured
\* user name, a colon and the configured password
SuppliesConfigured(header) ==
    /\ header.present /\ header.readable
    /\ Len(header.parts) = 2
    /\ eq_ignore_ascii_case(header.parts[1].text, basic)
    /\ header.parts[2].decodes
    /\ header.parts[2].decoded =
          state_config.username \o <<Colon>> \o state_config.password

\* C13: when authentication is required, the answer is 500 if user name and
\* password are not both configured; else 401 with WWW-Authenticate: Basic
\* realm="soop3" if the Authorization header is absent, malformed or carries
\* other credentials; the route handler runs only for the configured pair.
AuthenticationOutcome ==
    [][/\ (AuthDecides /\ MustAuthenticate(state_config.policy, http.req.method)) =>
            IF state_config.username = Unset \/ state_config.password = Unset
            THEN /\ http'.stage = "cors_response"
                 /\ http'.response.status = 500
            ELSE IF SuppliesConfigured(http'.authorization)
            THEN http'.stage = "route"
            ELSE /\ http'.stage = "cors_response"
                 /\ http'.response.status = 401
                 /\ "WWW-Authenticate" \in DOMAIN http'.response.headers
                 /\ http'.response.headers["WWW-Authenticate"] = "Basic realm=\"soop3\""
       /\ (http'.invoked /\ MustAuthenticate(state_config.policy, http.req.method)) =>
            /\ state_config.username # Unset /\ state_config.password # Unset
            /\ SuppliesConfigured(http.authorization)]_vars

\* C13's case: the right user name with a password that is a proper prefix of
\* the configured one was answered 401
WrongPasswordWitness ==
    /\ http.stage = "sent"
    /\ http.response.status = 401
    /\ http.credentials.ok
    /\ http.credentials.username = state_config.username
    /\ http.credentials.password = <<112>>
    /\ state_config.password = <<112, 113>>
    /\ ~http.invoked

\* the credentials of the same lengths as the ones this request supplied
SameLengths(credentials) ==
    { [ok |-> TRUE, username |-> username, password |-> password] :
        username \in { x \in Strings({117, 118}, MaxCredLen) :
                         Len(x) = Len(credentials.username) },
        password \in { x \in Strings({112, 113}, MaxCredLen) :
                         Len(x) = Len(credentials.password) } }

\* C14 as written: validate_credentials is true exactly for the byte-equal
\* pair, and the number of byte comparisons it makes depends on the lengths
\* of its inputs only
ComparisonsDependOnLengthsOnly ==
    (http.stage = "sent" /\ http.credentials.ok) =>
        /\ validate_credentials(state_config, http.credentials).eq <=>
              /\ http.credentials.username = state_config.username
              /\ http.credentials.password = state_config.password
        /\ \A other \in SameLengths(http.credentials) :
              validate_credentials(state_config, other).comparisons = http.comparisons

\* a file was requested by its own path
FileRequested ==
    /\ http.stage = "requested"
    /\ resp.resolved.ok
    /\ ~ends_with(http.capture, <<Ch.slash>>)
    /\ is_file(fs, resp.resolved.path)

\* the bytes of the file requested
Requested == fs[resp.resolved.path].data

\* the spec lies in a file of the size: its start is not after its end and
\* its end is before the end of the file
Within(spec, size) ==
    CASE spec.kind = "closed" -> spec.first <= spec.last /\ spec.last < size
      [] spec.kind = "from" -> spec.first < size
      [] spec.kind = "suffix" -> 1 <= spec.last /\ spec.last <= size
      [] OTHER -> FALSE

\* the spec starts in the file and reaches past its end, or is a suffix
\* longer than the file
Overshoots(spec, size) ==
    CASE spec.kind = "closed" -> spec.first < size /\ spec.last >= size
      [] spec.kind = "suffix" -> spec.last > size
      [] OTHER -> FALSE

\* the byte range a spec stands for
Selected(spec, size) ==
    CASE spec.kind = "closed" -> <<spec.first, IF spec.last < size THEN spec.last ELSE size - 1>>
      [] spec.kind = "from" -> <<spec.first, size - 1>>
      [] spec.kind = "suffix" ->
            <<IF spec.last < size THEN size - spec.last ELSE 0, size - 1>>
      [] OTHER -> <<0, 0>>

Overlap(one, two) == one[1] <= two[2] /\ two[1] <= one[2]

\* some two ranges of the header overlap
Overlapping(specs, size) ==
    \E i, j \in 1..Len(specs) :
        i < j /\ Overlap(Selected(specs[i], size), Selected(specs[j], size))

\* the header cannot be read as bytes=<specs>
Unparsable(range) ==
    \/ ~range.readable
    \/ range.unit # "bytes"
    \/ range.specs = <<>>
    \/ \E i \in 1..Len(range.specs) : range.specs[i].kind = "junk"

\* the response is the whole file
IsFull(response, data) ==
    /\ response.status = 200
    /\ response.headers["Content-Length"] = Len(data)
    /\ response.body = IF response.method = "HEAD" THEN <<>> ELSE data

\* the response is 416 with Content-Range: bytes */size and no body
IsUnsatisfiable(response, data) ==
    /\ response.status = 416
    /\ response.headers["Content-Range"] = ContentRange(<<>>, Len(data))
    /\ response.body = <<>>

\* the response is 206 for the bytes start..=end
IsPartial(response, data, range) ==
    /\ response.status = 206
    /\ response.headers["Content-Length"] = range[2] - range[1] + 1
    /\ response.headers["Content-Range"] = ContentRange(range, Len(data))
    /\ response.body = IF response.method = "HEAD" THEN <<>>
                       ELSE SubSeq(data, range[1] + 1, range[2] + 1)

\* what the file responder answers for a regular file of size S: no Range
\* header gives 200 with Content-Length S; a header that does not parse, or
\* in which some range is unsatisfiable against S or two ranges overlap,
\* gives 416 with Content-Range: bytes */S and no body; a header whose
\* ranges all lie in the file and do not overlap gives 206 for the first of
\* them; a range that reaches past the end of the file gives one of the two
RangeResponses ==
    FileRequested =>
        IF ~http.range.present THEN IsFull(resp, Requested)
        ELSE IF \/ Unparsable(http.range)
                \/ \E i \in 1..Len(http.range.specs) :
                      /\ ~Within(http.range.specs[i], Len(Requested))
                      /\ ~Overshoots(http.range.specs[i], Len(Requested))
                \/ Overlapping(http.range.specs, Len(Requested))
             THEN IsUnsatisfiable(resp, Requested)
        ELSE IF \A i \in 1..Len(http.range.specs) :
                    Within(http.range.specs[i], Len(Requested))
             THEN IsPartial(resp, Requested, Selected(http.range.specs[1], Len(Requested)))
        ELSE \/ IsUnsatisfiable(resp, Requested)
             \/ IsPartial(resp, Requested, Selected(http.range.specs[1], Len(Requested)))

\* bytes=-2,0-0 on the file of six bytes was answered 206 with bytes 4-5/6
RangeSuffixWitness ==
    /\ FileRequested
    /\ http.capture = n_f /\ http.method = "GET"
    /\ http.range = RangeHeader("bytes", <<Suffix(2), Closed(0, 0)>>)
    /\ resp.status = 206
    /\ resp.headers["Content-Range"] = ContentRange(<<4, 5>>, 6)
    /\ resp.headers["Content-Length"] = 2
    /\ resp.body = <<101, 102>>

\* C15 as written, for headers none of whose ranges reaches past the end of
\* the file: 416 when the header does not parse or all its ranges are
\* unsatisfiable, else 206 for the first range
FirstRangeUnlessAllUnsatisfiable ==
    (/\ FileRequested
     /\ http.range.present
     /\ ~Unparsable(http.range)
     /\ \A i \in 1..Len(http.range.specs) :
           ~Overshoots(http.range.specs[i], Len(Requested))) =>
        IF \A i \in 1..Len(http.range.specs) : ~Within(http.range.specs[i], Len(Requested))
        THEN IsUnsatisfiable(resp, Requested)
        ELSE Within(http.range.specs[1], Len(Requested)) =>
                IsPartial(resp, Requested, Selected(http.range.specs[1], Len(Requested)))

\* a directory was requested with the trailing slash
DirectoryRequested ==
    /\ http.stage = "requested"
    /\ resp.resolved.ok
    /\ ends_with(http.capture, <<Ch.slash>>)
    /\ is_dir(fs, resp.resolved.path)

\* what the file responder answers for a file and the request's own Range
\* header
FileResponder(file_path) ==
    [handle_file_request(fs, file_path, http.range, state_config.range_clamps, resp.resolved)
        EXCEPT !.method = http.method,
               !.body = IF http.method = "HEAD" THEN <<>> ELSE @]

\* C16 as written: a directory request serves index.html if it is a regular
\* file, else index.htm if it is one, else the listing; the index file goes
\* through the file responder with the request's Range header
IndexServedWithRange ==
    DirectoryRequested =>
        IF is_file(fs, Append(resp.resolved.path, IndexHtml))
        THEN resp = FileResponder(Append(resp.resolved.path, IndexHtml))
        ELSE IF is_file(fs, Append(resp.resolved.path, IndexHtm))
        THEN resp = FileResponder(Append(resp.resolved.path, IndexHtm))
        ELSE resp.listing # <<>>

\* C17 as written: in a listing every entry's href is the entry's name
\* encoded by encode_path_segments, with a slash after a directory
HrefsAreEncodedNames ==
    http.stage = "requested" =>
        \A row \in 1..Len(resp.listing) :
            resp.listing[row].name # DotDot =>
                html_unescape(resp.listing[row].href) =
                    encode_path_segments(resp.listing[row].name)
                    \o (IF resp.listing[row].is_dir THEN <<Ch.slash>> ELSE <<>>)

\* C18 as written: the href of an entry, followed from the listing, resolves
\* to the entry
HrefsRoundTrip ==
    (http.stage = "followed" /\ Last(http.listed) # DotDot) =>
        /\ resp.resolved.ok
        /\ resp.resolved.path = http.listed

\* C19 as written: a file requested without a Range header, under its name
\* with every byte of the encode set (the % too) percent-encoded, is served,
\* 200 with its bytes
EncodedNameServed ==
    \A name \in {n_space, n_hash, n_query, n_amp, n_pct41, n_A, n_pct2F} :
        (/\ http.stage = "requested" /\ http.method = "GET"
         /\ http.range = NoRange
         /\ http.capture = n_d \o <<Ch.slash>> \o Enc(name)) =>
            /\ resp.status = 200
            /\ resp.body = fs[<<n_p, n_d, name>>].data

\* the final component an upload of the filename is stored under: the
\* filename, with the timestamp and an underscore before it when timestamps
\* are on and the upload goes to the root
StoredName ==
    IF state_config.prepend_timestamp /\ http.capture = <<>>
    THEN Timestamp \o <<Ch.underscore>> \o http.filename
    ELSE http.filename

PostAnswered == http.stage = "posted"

\* the extractors of the upload handlers took the request: the path is
\* UTF-8 and the Content-Type is multipart/form-data with a boundary
ExtractorsAccept ==
    /\ http.capture = <<>> \/ PathExtractor(http.capture).ok
    /\ http.request.content_type = FormData

\* C21: with enable_upload false a POST to / or /<path> is answered 403 when
\* the handler's extractors take it, whatever its body, and 400 when they do
\* not; no file or directory is created, changed or removed
DisabledUploadForbidden ==
    (PostAnswered /\ ~state_config.enable_upload) =>
        /\ resp.status = IF ExtractorsAccept THEN 403 ELSE 400
        /\ fs = fs0

\* C21's case: a garbled multipart body posted to /d with uploads off was
\* answered 403
DisabledUploadWitness ==
    /\ PostAnswered /\ ~state_config.enable_upload
    /\ http.capture = n_d
    /\ http.request.garbled /\ http.request.fields = <<>>
    /\ resp.status = 403
    /\ fs = fs0

\* C21 as written: with enable_upload false every POST is answered 403 and
\* nothing is created
DisabledUploadAlways403 ==
    (PostAnswered /\ ~state_config.enable_upload) => (resp.status = 403 /\ fs = fs0)

\* the directory the upload's target lies in
TargetParent == Parent(http.upload.target)

\* the parent of the target, or a directory above it, was a file when the
\* request came
AncestorIsFile ==
    \E k \in 1..Len(TargetParent) :
        /\ SubSeq(TargetParent, 1, k) \in DOMAIN fs0
        /\ fs0[SubSeq(TargetParent, 1, k)].kind = "file"

\* C22 as written: an upload whose target's parent, or a component above
\* it, exists and is not a directory fails with 409 and creates nothing;
\* a missing parent is made with all its ancestors when create_directories
\* is set, and else the upload fails with 404 and creates nothing
ParentDirectoryPolicy ==
    (/\ PostAnswered /\ state_config.enable_upload
     /\ ~state_config.prepend_timestamp
     /\ http.upload.jail.ok) =>
        IF AncestorIsFile THEN resp.status = 409 /\ fs = fs0
        ELSE IF TargetParent \in DOMAIN fs0 THEN TRUE
        ELSE IF state_config.create_directories
        THEN \A k \in 1..Len(TargetParent) :
                /\ SubSeq(TargetParent, 1, k) \in DOMAIN fs
                /\ fs[SubSeq(TargetParent, 1, k)].kind = "dir"
        ELSE resp.status = 404 /\ fs = fs0

\* C23 as written: a GET of a missing path is answered 404; a GET of a file
\* or a directory that is there and that the server may not read is answered
\* 403; an upload into a directory the server may not write to is answered
\* 403 and leaves no file
PermissionDeniedIsForbidden ==
    /\ (http.stage = "requested" /\ http.capture = n_m) => resp.status = 404
    /\ (http.stage = "requested" /\ http.capture \in {n_k, n_q \o <<Ch.slash>>})
          => resp.status = 403
    /\ (/\ http.stage = "posted" /\ http.capture = n_r /\ http.filename = n_a
        /\ ~state_config.prepend_timestamp)
          => (resp.status = 403 /\ fs = fs0)

\* the tokens of a header value, from the pieces it was put together from
HeaderTokens(header) ==
    (IF header.gap = <<>> THEN <<header.scheme \o header.token>>
     ELSE IF header.token = <<>> THEN <<header.scheme>>
     ELSE <<header.scheme, header.token>>)
    \o (IF Len(header.trailer) > 1 THEN <<Tail(header.trailer)>> ELSE <<>>)

\* token is the word basic in any mix of upper and lower case
IsBasicWord(token) ==
    /\ Len(token) = Len(basic)
    /\ \A i \in 1..Len(basic) : token[i] \in {basic[i], basic[i] - 32}

\* token is the base64 of a UTF-8 text with a colon in it
IsUserPassToken(token) ==
    \E text \in UserPass :
        /\ token = Base64Encode(text)
        /\ Utf8Valid(text)
        /\ \E i \in 1..Len(text) : text[i] = Colon

HeaderParsed == http.stage = "parsed"

\* C24: parse_basic_auth accepts a header value exactly when its tokens are
\* the word basic in any case followed by one token that is the base64 of a
\* UTF-8 text with a colon, whatever whitespace separates and surrounds them;
\* the username is that text before its first colon and the password all of
\* it after
BasicAuthAcceptedIff ==
    HeaderParsed =>
        /\ http.credentials.ok <=>
              /\ Len(HeaderTokens(http.header)) = 2
              /\ IsBasicWord(HeaderTokens(http.header)[1])
              /\ IsUserPassToken(HeaderTokens(http.header)[2])
        /\ http.credentials.ok =>
              /\ \A i \in 1..Len(http.credentials.username) :
                    http.credentials.username[i] # Colon
              /\ Base64Encode(http.credentials.username \o <<Colon>>
                              \o http.credentials.password)
                    = HeaderTokens(http.header)[2]
        /\ ~http.credentials.ok => http.credentials = ParseErr

\* a lower-case scheme, tabs and spaces, and a password with a colon in it
BasicAuthWitness ==
    /\ HeaderParsed
    /\ http.header.scheme = <<98, 65, 115, 73, 99>>
    /\ http.header.gap = <<32, 9>>
    /\ http.header.trailer = <<32>>
    /\ http.credentials.ok
    /\ http.credentials.username = <<117>>
    /\ http.credentials.password = <<112, 58, 113>>

\* the glob: a star stands for any run of characters, a question mark for
\* exactly one, every other character for itself; the whole text is matched
RECURSIVE GlobMatches(_, _)
GlobMatches(pattern, text) ==
    IF pattern = <<>> THEN text = <<>>
    ELSE IF Head(pattern) = Star
    THEN \/ GlobMatches(Tail(pattern), text)
         \/ text # <<>> /\ GlobMatches(pattern, Tail(text))
    ELSE /\ text # <<>>
         /\ Head(pattern) = QuestionMark \/ Head(pattern) = Head(text)
         /\ GlobMatches(Tail(pattern), Tail(text))

RelPath(dir, name) == IF dir = <<>> THEN name ELSE dir \o <<Ch.slash>> \o name

ListingFiltered == http.stage = "filtered"

\* C26: each matcher accepts exactly the texts its glob matches as a whole,
\* and an entry of the listing is dropped exactly when its path relative to
\* the base directory is matched by the glob of some line
IgnoreMatchesGlob ==
    ListingFiltered =>
        \A name \in ListedNames :
            name \notin http.entries
                <=> \E i \in 1..Len(http.lines) :
                        GlobMatches(http.lines[i], RelPath(http.dir, name))

\* upload i writes in overwrite mode and has opened its temporary
Overwriting(i) ==
    /\ ~state_config.prevent_overwrite
    /\ uploads[i].temp # None
    /\ uploads[i].pc \in {"chunk", "flush", "rename", "remove_temp", "respond", "done"}

\* the file at path p is as it was at startup, or holds the whole body of
\* an upload whose target_path p is
CompleteAt(p) ==
    \/ p \notin DOMAIN fs
    \/ p \in DOMAIN fs0 /\ fs[p] = fs0[p]
    \/ \E j \in Uploads : uploads[j].target = p /\ HasBytes(fs, p, uploads[j].body)

\* C25: in overwrite mode target_path holds at every point of the upload
\* what it held before or the whole body of an upload to it, never a part
\* of a body; an upload whose stream or rename failed has left no temporary
\* and has not changed target_path
OverwriteIsAtomic ==
    \A i \in Uploads :
        Overwriting(i) =>
            /\ CompleteAt(uploads[i].target)
            /\ (At(i, "done") /\ uploads[i].status # 204) =>
                  uploads[i].temp \notin DOMAIN fs

\* the parts of the answered POST
PostedFields == http.request.fields

\* the parts that carry a filename
FileFields == {k \in 1..Len(PostedFields) : PostedFields[k].filename # NoFilename}

\* the first of them
FirstFileField == CHOOSE k \in FileFields : \A j \in FileFields : k <= j

\* the regular files that were not there before the request
FilesCreated == {p \in DOMAIN fs \ DOMAIN fs0 : fs[p].kind = "file"}

\* a part before part k broke off
BrokenBefore(k) == \E j \in 1..(k - 1) : PostedFields[j].stream_err # "none"

\* C27: the parts are read in order and those without a filename passed
\* over; the first part with a filename is the upload, no part behind it is
\* read, and only its bytes are stored; a request without such a part is
\* answered 400 and writes nothing; no request creates more than one file
FirstFileFieldOnly ==
    (PostAnswered /\ ExtractorsAccept /\ state_config.enable_upload) =>
        /\ Cardinality(FilesCreated) <= 1
        /\ FileFields = {} => resp.status = 400 /\ fs = fs0
        /\ (FileFields # {} /\ ~BrokenBefore(FirstFileField)) =>
              /\ http.upload.read = FirstFileField
              /\ http.upload.filename = PostedFields[FirstFileField].filename
              /\ resp.status = 204 =>
                    /\ HasBytes(fs, http.upload.target, PostedFields[FirstFileField].body)
                    /\ \A p \in DOMAIN fs \cup DOMAIN fs0 :
                          Changed(p) => p = http.upload.target
                                        \/ starts_with(http.upload.target, p)

\* a text part, then the files b and a: b is stored and a is not
FirstFileFieldWitness ==
    /\ PostAnswered
    /\ http.capture = <<>>
    /\ ~state_config.prepend_timestamp
    /\ PostedFields = <<TextPart, FileB, FileA>>
    /\ resp.status = 204
    /\ http.upload.read = 2
    /\ HasBytes(fs, <<n_p, n_b>>, <<66>>)
    /\ <<n_p, n_a>> \notin DOMAIN fs

\* uploads i and j are different requests for one target_path
SameTarget(i, j) ==
    i # j /\ uploads[i].target # None /\ uploads[i].target = uploads[j].target

Unsatisfied ==
    /\ http.stage \notin {"none", "cors", "auth"}
    /\ MustAuthenticate(state_config.policy, http.req.method)
    /\ ~(/\ state_config.username # Unset /\ state_config.password # Unset
         /\ SuppliesConfigured(http.authorization))

\* the CORS layer has answered an OPTIONS request
Preflight ==
    /\ http.stage \notin {"none", "cors"}
    /\ http.req.method = "OPTIONS"
    /\ state_config.cors_origins # {}

\* C29: a request that must authenticate and does not is answered 401 or 500
\* by the auth layer, an OPTIONS request under configured CORS is answered by
\* the CORS layer, and neither reaches a route handler; while no handler has
\* run the filesystem is as it was, so an unauthenticated POST under the
\* policies all and upload stores nothing
RefusedNeverRouted ==
    /\ Unsatisfied =>
          /\ ~http.invoked
          /\ http.response.status \in {401, 500}
          /\ fs = fs0
    /\ Preflight =>
          /\ ~http.invoked
          /\ http.response.status \in {200, 403}
          /\ fs = fs0
    /\ (http.stage # "none" /\ ~http.invoked) => fs = fs0

\* a POST under the policy upload with the password of another user was
\* answered 401 and stored nothing, where the same POST with the configured
\* pair stores the file a
RefusedNeverRoutedWitness ==
    /\ http.stage = "sent"
    /\ http.req.method = "POST"
    /\ state_config.policy = "AuthenticateUpload"
    /\ http.credentials.ok
    /\ http.credentials.username = state_config.username
    /\ http.credentials.password # state_config.password
    /\ http.response.status = 401
    /\ ~http.invoked
    /\ <<n_p, n_a>> \notin DOMAIN fs

\* the directory the request path names under the upload root
NamedDirectory ==
    <<n_p>> \o [i \in 1..Len(Components(PathExtractor(http.capture).value)) |->
                   Components(PathExtractor(http.capture).value)[i].name]

\* a file was stored under prepend_timestamp
StoredWithTimestamp ==
    /\ PostAnswered
    /\ state_config.prepend_timestamp
    /\ resp.status = 204

\* C30: with prepend_timestamp the file is stored in the directory the
\* request path names, under the timestamp, an underscore and the sanitized
\* filename; no directory component carries the timestamp
TimestampOnFileNameOnly ==
    StoredWithTimestamp =>
        /\ Parent(http.upload.target) = NamedDirectory
        /\ Last(http.upload.target) = Timestamp \o <<Ch.underscore>> \o http.upload.filename
        /\ HasBytes(fs, http.upload.target, http.upload.body)

====
